---- MODULE Spec2Model ----
(***************************************************************************)
(* A model of wagtailmenus: menu records, the page tree they are rendered  *)
(* against, the priming pipeline and template resolution.                  *)
(***************************************************************************)
EXTENDS Integers, Sequences, FiniteSets, TLC

VARIABLES
    (* one call of Menu.prime_menu_items: its input, context and output *)
    primeIn, primeCtx, primeOut,
    (* the hook registry: the functions registered under each hook name *)
    hooksRaw, hooksPrimed,
    (* one call of Menu.get_primed_menu_items: its position, the index of the
       next hook of the running loop, the items list, and the calls made *)
    pipePc, pipeIdx, pipeItems, pipeLog, pipeMenu,
    (* the page flags the base querysets filter on *)
    live, expired, showInMenus,
    (* the functions registered for 'menus_modify_base_page_queryset' and
       'menus_modify_base_menuitem_queryset' *)
    hooksBPQ, hooksMIQ,
    (* a main or flat menu: the values stored on its record, the instance a
       tag works with, and the arguments of the last tag call *)
    stored, menu, tagCall,
    (* template lookup: the menu instance and settings a lookup works with,
       the templates the engine can find, and the result of the lookup *)
    tplMenu, tplFiles, tplOut,
    (* the records: the default site, the flat menu and main menu tables, and
       the last call made on them with its result *)
    defaultSite, flatMenus, mainMenus, dbLast,
    (* for each site, the main menus get_for_site has returned for it *)
    mainReturned,
    (* the functions registered under the name 'menus_modify_menu_items' *)
    hooksModify,
    (* one call of a menu tag or of one of the helpers of utils.misc: its
       arguments and context, the steps it took and what came of it *)
    tagRun,
    (* one derivation of the current page and section root from a URL: the
       arguments, the locals of the loop and the data derived *)
    drv,
    (* one call of the sub-menu template name helpers and its result *)
    lvlCall,
    (* one validation of the arguments of a children menu: the values
       supplied, the values derived and the errors raised *)
    childRun,
    (* one nested render: the tag that started it, the menus rendered so far
       from the outermost inwards, and the sub_menu calls made *)
    nest,
    (* one call of get_primed_menu_items: the menu, the hooks registered and
       the keyword arguments each hook was called with *)
    hookRun,
    (* one evaluation of pages_for_display: the menu it is read on and the
       pages it gave *)
    pfdRun,
    (* one call of SectionMenu.get_context_data: the options, the menu items
       and the section root it put in the context *)
    sectRun,
    (* the renders of one menu instance: its cached top_level_items as
       priming left them, and the request and options of the last render *)
    actRun,
    (* one menu's MenuItem rows and the add_menu_items_for_pages calls made
       on it *)
    addRun

vPrime == <<primeIn, primeCtx, primeOut>>
vPipe == <<hooksRaw, hooksPrimed, pipePc, pipeIdx, pipeItems, pipeLog, pipeMenu>>

vPages == <<live, expired, showInMenus, hooksBPQ, hooksMIQ>>
vMenu == <<stored, menu, tagCall>>
vTpl == <<tplMenu, tplFiles, tplOut>>
vDb == <<defaultSite, flatMenus, mainMenus, dbLast, mainReturned>>

vReg == <<hooksModify>>
vTags == <<tagRun>>
vUrl == <<drv>>
vLvl == <<lvlCall>>
vChild == <<childRun>>
vNest == <<nest>>
vKw == <<hookRun>>
vPfd == <<pfdRun>>
vSect == <<sectRun>>
vActive == <<actRun>>
vAdd == <<addRun>>
vMore == <<vChild, vNest, vKw, vPfd, vSect, vActive, vAdd>>

vars == <<vPrime, vPipe, vPages, vMenu, vTpl, vDb, vReg, vTags, vUrl, vLvl, vMore>>

\* what each part of the model leaves alone
notPrime == <<vPipe, vPages, vMenu, vTpl, vDb, vReg, vTags, vUrl, vLvl, vMore>>
notPipe == <<vPrime, vPages, vMenu, vTpl, vDb, vReg, vTags, vUrl, vLvl, vMore>>
notMenu == <<vPrime, vPipe, vTpl, vDb, vReg, vTags, vUrl, vLvl, vMore>>
notTpl == <<vPrime, vPipe, vPages, vMenu, vDb, vReg, vTags, vUrl, vLvl, vMore>>
notDb == <<vPrime, vPipe, vPages, vMenu, vTpl, vReg, vTags, vUrl, vLvl, vMore>>
notPipe_Reg == <<vPrime, vPages, vMenu, vTpl, vDb, vTags, vUrl, vLvl, vMore>>
notTags == <<vPrime, vPipe, vPages, vMenu, vTpl, vReg, vUrl, vLvl, vMore>>
notUrl == <<vPrime, vPipe, vPages, vMenu, vTpl, vDb, vReg, vTags, vLvl, vMore>>
notLvl == <<vPrime, vPipe, vPages, vMenu, vTpl, vDb, vReg, vTags, vUrl, vMore>>
notMore == <<vPrime, vPipe, vPages, vMenu, vTpl, vDb, vReg, vTags, vUrl, vLvl>>
notChild == <<notMore, vNest, vKw, vPfd, vSect, vActive, vAdd>>
notNest == <<notMore, vChild, vKw, vPfd, vSect, vActive, vAdd>>
notKw == <<notMore, vChild, vNest, vPfd, vSect, vActive, vAdd>>
notPfd == <<notMore, vChild, vNest, vKw, vSect, vActive, vAdd>>
notSect == <<notMore, vChild, vNest, vKw, vPfd, vActive, vAdd>>
notActive == <<notMore, vChild, vNest, vKw, vPfd, vSect, vAdd>>
notAdd == <<notMore, vChild, vNest, vKw, vPfd, vSect, vActive>>

(***************************************************************************)
(* Values                                                                  *)
(***************************************************************************)

\* Python's None, where the other values of the field are naturals
NONE == -1

SECTION_ROOT_DEPTH == 3

USE_SPECIFIC_OFF == 0
USE_SPECIFIC_AUTO == 1
USE_SPECIFIC_TOP_LEVEL == 2
USE_SPECIFIC_ALWAYS == 3

ACTIVE_CLASS == "active"
ACTIVE_ANCESTOR_CLASS == "ancestor"

\* Bound on current_level / max_levels in the modelled renders
MaxLevel == 2

(***************************************************************************)
(* The page tree: treebeard paths, one step per level                      *)
(***************************************************************************)

\* page id -> materialized path (a sequence of steps, steplen = 1 element)
PagePath == <<
    <<1>>,              \* 1  root
    <<1, 1>>,           \* 2  home
    <<1, 1, 1>>,        \* 3  section A
    <<1, 1, 2>>,        \* 4  section B
    <<1, 1, 1, 1>>,     \* 5  A/1
    <<1, 1, 1, 2>>,     \* 6  A/2
    <<1, 1, 2, 1>>,     \* 7  B/1
    <<1, 1, 1, 1, 1>>   \* 8  A/1/a
  >>

Pages == DOMAIN PagePath

Depth(p) == Len(PagePath[p])

\* path__startswith
StartsWith(path, prefix) ==
    /\ Len(prefix) <= Len(path)
    /\ SubSeq(path, 1, Len(prefix)) = prefix

\* page.path[:-page.steplen]
ParentPath(path) == SubSeq(path, 1, Len(path) - 1)

\* lexicographic order on paths: the default ordering of a page queryset
RECURSIVE PathLess(_, _)
PathLess(a, b) ==
    IF a = <<>> THEN b # <<>>
    ELSE IF b = <<>> THEN FALSE
    ELSE IF Head(a) # Head(b) THEN Head(a) < Head(b)
    ELSE PathLess(Tail(a), Tail(b))

\* a page queryset evaluated to a list, in path order
RECURSIVE PageList(_)
PageList(S) ==
    IF S = {} THEN <<>>
    ELSE LET first == CHOOSE p \in S :
                        \A q \in S \ {p} : PathLess(PagePath[p], PagePath[q])
         IN <<first>> \o PageList(S \ {first})

\* pages whose specific class defines has_submenu_items / modify_submenu_items
MenuPages == {3, 5}
\* pages whose specific instance has repeat_in_subnav = True
RepeatInSubnavPages == {5}
\* pages whose specific class is a subclass of AbstractLinkPage
LinkPages == {7}

\* Page.objects.filter(live=True, expired=False, show_in_menus=True)
DisplayablePages(liveS, expiredS, showS) ==
    {p \in Pages : p \in liveS /\ p \notin expiredS /\ p \in showS}

(***************************************************************************)
(* pages_for_display and page_children_dict                                *)
(***************************************************************************)

\* Mutant: the queryset without the limit on how far below the root it goes
RootPagesForDisplay_NoLimit(root, max_levels, base) == {p \in base : Depth(p) > Depth(root) /\ StartsWith(PagePath[p], PagePath[root])}

\* MenuFromRootPage.get_pages_for_display
RootPagesForDisplay(root, max_levels, base) == {p \in base : Depth(p) > Depth(root) /\ Depth(p) <= Depth(root) + max_levels /\ StartsWith(PagePath[p], PagePath[root])}

\* MenuWithMenuItems.get_pages_for_display, for the given top_level_items
ItemsPagesForDisplay(items, max_levels, base) ==
    IF max_levels = 1 THEN {}
    ELSE LET branch(i) ==
                 IF /\ items[i].link_page # NONE
                    /\ items[i].allow_subnav
                    /\ Depth(items[i].link_page) >= SECTION_ROOT_DEPTH
                 THEN {p \in Pages :
                         /\ Depth(p) > Depth(items[i].link_page)
                         /\ Depth(p) < Depth(items[i].link_page) + max_levels
                         /\ StartsWith(PagePath[p], PagePath[items[i].link_page])}
                 ELSE {}
         IN  (UNION {branch(i) : i \in DOMAIN items}) \cap base

\* Menu.page_has_children: page.path in self.page_children_dict
PageHasChildren(page, pfd) ==
    \E q \in pfd : ParentPath(PagePath[q]) = PagePath[page]

\* Menu.get_children_for_page: self.page_children_dict.get(page.path, [])
ChildrenForPage(page, pfd) ==
    PageList({q \in pfd : ParentPath(PagePath[q]) = PagePath[page]})

(***************************************************************************)
(* Menu items                                                              *)
(***************************************************************************)

\* A MenuItem row as loaded (no priming attribute set yet)
MenuItemObj(pk, page, allow, url) ==
    [kind |-> "MenuItem", id |-> pk, link_page |-> page, allow_subnav |-> allow,
     link_url |-> url, attrs |-> {}, text |-> "", href |-> "",
     active_class |-> "", has_children_in_menu |-> FALSE]

\* A Page object as loaded
PageObj(p) ==
    [kind |-> "Page", id |-> p, link_page |-> p, allow_subnav |-> TRUE,
     link_url |-> "", attrs |-> {}, text |-> "", href |-> "",
     active_class |-> "", has_children_in_menu |-> FALSE]

\* The menu's stored MenuItem rows, in sort_order
StoredMenuItems == <<
    MenuItemObj(1, 3, TRUE, ""),
    MenuItemObj(2, 5, TRUE, ""),
    MenuItemObj(3, NONE, TRUE, "/about/"),
    MenuItemObj(4, 2, TRUE, ""),
    MenuItemObj(5, 4, FALSE, "")
  >>

(***************************************************************************)
(* Menu.prime_menu_items                                                   *)
(***************************************************************************)

\* setattr(item, name, value) for the four priming attributes
SetText(item, v) == [item EXCEPT !.text = v, !.attrs = @ \cup {"text"}]
SetHref(item, v) == [item EXCEPT !.href = v, !.attrs = @ \cup {"href"}]
SetActiveClass(item, v) ==
    [item EXCEPT !.active_class = v, !.attrs = @ \cup {"active_class"}]
SetHasChildren(item, v) ==
    [item EXCEPT !.has_children_in_menu = v,
                 !.attrs = @ \cup {"has_children_in_menu"}]

\* stop_at_this_level = (cvals.current_level >= self.max_levels)
StopAtThisLevel(c) == c.current_level >= c.max_levels

\* Mutant: the decision without the stop_at_this_level test
HasChildrenInMenu_NoStop(item, c) ==
    LET page == item.link_page IN
    IF /\ Depth(page) >= SECTION_ROOT_DEPTH
       /\ (item.kind # "MenuItem" \/ item.allow_subnav)
    THEN IF c.use_specific # USE_SPECIFIC_OFF /\ page \in MenuPages
         THEN c.has_submenu_items
         ELSE PageHasChildren(page, c.pages_for_display)
    ELSE FALSE

\* The has_children_in_menu decision for a page-linked item
HasChildrenInMenu(item, c) ==
    LET page == item.link_page IN
    IF /\ ~StopAtThisLevel(c)
       /\ Depth(page) >= SECTION_ROOT_DEPTH
       /\ (item.kind # "MenuItem" \/ item.allow_subnav)
    THEN IF c.use_specific # USE_SPECIFIC_OFF /\ page \in MenuPages
         THEN c.has_submenu_items
         ELSE PageHasChildren(page, c.pages_for_display)
    ELSE FALSE

\* Mutant: the decision without the repeated-parent exception
ActiveClassFor_NoRepeat(item, hcim, c) ==
    LET page == item.link_page IN
    IF c.current_page # NONE /\ page = c.current_page
    THEN ACTIVE_CLASS
    ELSE IF page \in c.current_page_ancestor_ids
         THEN ACTIVE_ANCESTOR_CLASS
         ELSE ""

\* The active_class decision for a page-linked item
ActiveClassFor(item, hcim, c) ==
    LET page == item.link_page IN
    IF c.current_page # NONE /\ page = c.current_page
    THEN IF /\ c.allow_repeating_parents
            /\ c.use_specific # USE_SPECIFIC_OFF
            /\ hcim
            /\ page \in RepeatInSubnavPages
         THEN ACTIVE_ANCESTOR_CLASS
         ELSE ACTIVE_CLASS
    ELSE IF page \in c.current_page_ancestor_ids
         THEN ACTIVE_ANCESTOR_CLASS
         ELSE ""

\* href: get_full_url(request) or relative_url(current_site)
HrefFor(c) == IF c.use_absolute_page_urls THEN "full_url" ELSE "relative_url"

\* The body of the loop for a MenuItem with a link_page, or an ordinary Page
PrimePageItem(item, c) ==
    LET hcim == HasChildrenInMenu(item, c)
        i1 == SetText(item, IF item.kind = "MenuItem" THEN "menu_text" ELSE "title")
        i2 == SetHasChildren(i1, hcim)
        i3 == IF c.apply_active_classes
              THEN SetActiveClass(i2, ActiveClassFor(item, hcim, c))
              ELSE i2
    IN  SetHref(i3, HrefFor(c))

\* The body of the loop for a MenuItem with a custom URL (page is None)
PrimeCustomUrlItem(item, c) ==
    LET i1 == SetText(item, "menu_text")
        i2 == IF c.apply_active_classes /\ item.link_url = c.request_path
              THEN SetActiveClass(i1, ACTIVE_CLASS)
              ELSE i1
    IN  SetHref(i2, HrefFor(c))

\* Mutant: the link page branch without setattr(item, 'href', url)
PrimeLinkPage_NoHref(item, c) == SetText(SetActiveClass(item, "extra_classes"), "menu_text")

\* The body of the loop for a link page that show_in_menus_custom accepts
PrimeLinkPage(item, c) == SetHref(SetText(SetActiveClass(item, "extra_classes"), "menu_text"), HrefFor(c))

\* Menu.prime_menu_items
RECURSIVE PrimeMenuItems(_, _)
PrimeMenuItems(items, c) ==
    IF items = <<>> THEN <<>>
    ELSE LET item == Head(items)
             rest == PrimeMenuItems(Tail(items), c)
         IN  IF item.kind = "MenuItem"
             THEN IF item.link_page # NONE
                  THEN <<PrimePageItem(item, c)>> \o rest
                  ELSE <<PrimeCustomUrlItem(item, c)>> \o rest
             ELSE IF item.id \in LinkPages
             THEN IF c.show_in_menus_custom
                  THEN <<PrimeLinkPage(item, c)>> \o rest
                  ELSE rest
             ELSE <<PrimePageItem(item, c)>> \o rest

(***************************************************************************)
(* The parts of the model at rest                                          *)
(***************************************************************************)

\* The page flags of the fixture tree: every page is live, none has expired,
\* and page 6 is not shown in menus
FixtureLive == Pages
FixtureExpired == {}
FixtureShowInMenus == Pages \ {6}
FixtureBase == DisplayablePages(FixtureLive, FixtureExpired, FixtureShowInMenus)

\* The contextual and option values of a render that has not been set up
IdleCtx ==
    [called |-> FALSE, menu |-> "none", root_page |-> NONE,
     root_specific |-> FALSE, current_page |-> NONE, current_page_ancestor_ids |-> {},
     current_level |-> 1, max_levels |-> 1, use_specific |-> USE_SPECIFIC_OFF,
     apply_active_classes |-> FALSE, allow_repeating_parents |-> FALSE,
     use_absolute_page_urls |-> FALSE, request_path |-> "/",
     has_submenu_items |-> FALSE, show_in_menus_custom |-> FALSE,
     pages_for_display |-> {}]

InitPrimeIdle ==
    /\ primeIn = <<>>
    /\ primeCtx = IdleCtx
    /\ primeOut = <<>>

\* An instance as loaded from its record: nothing cached yet
FreshMenu(rec) ==
    [max_levels |-> rec.max_levels, use_specific |-> rec.use_specific,
     pages_for_display |-> [cached |-> FALSE, pages |-> {}, specific |-> FALSE],
     page_children_dict |-> [cached |-> FALSE],
     top_level_items |-> [cached |-> FALSE, items |-> <<>>, specific |-> FALSE]]

\* AbstractMainMenu.max_levels: default=2
MAIN_MENU_DEFAULT_MAX_LEVELS == 2

\* The field defaults of a main menu record
DefaultRecord ==
    [max_levels |-> MAIN_MENU_DEFAULT_MAX_LEVELS, use_specific |-> USE_SPECIFIC_AUTO]

NoTagCall ==
    [tag |-> "none", max_levels |-> NONE, use_specific |-> NONE,
     show_multiple_levels |-> TRUE]

InitPagesIdle ==
    /\ live = FixtureLive
    /\ expired = FixtureExpired
    /\ showInMenus = FixtureShowInMenus
    /\ hooksBPQ = <<>>
    /\ hooksMIQ = <<>>

InitMenuIdle ==
    /\ stored = DefaultRecord
    /\ menu = FreshMenu(DefaultRecord)
    /\ tagCall = NoTagCall

InitPipeIdle ==
    /\ hooksRaw = <<>>
    /\ hooksPrimed = <<>>
    /\ pipePc = "idle"
    /\ pipeIdx = 1
    /\ pipeItems = <<>>
    /\ pipeLog = <<>>
    /\ pipeMenu = IdleCtx

\* A menu class and settings no template lookup has been made for
IdleTplMenu ==
    [cls |-> "main", mixin |-> FALSE, site_specific |-> FALSE, site |-> NONE,
     handle |-> <<>>, template_name |-> <<>>, sub_menu_template_name |-> <<>>,
     class_attrs |-> {}]

NoLookup == [call |-> "none", found |-> FALSE, name |-> <<>>, names |-> <<>>]

InitTplIdle ==
    /\ tplMenu = IdleTplMenu
    /\ tplFiles = {}
    /\ tplOut = NoLookup

NoDbCall ==
    [op |-> "none", pk |-> NONE, site |-> NONE, handle |-> <<>>,
     fallback |-> FALSE, raised |-> FALSE, result |-> NONE, created |-> FALSE]

InitDbIdle ==
    /\ defaultSite = NONE
    /\ flatMenus = {}
    /\ mainMenus = {}
    /\ dbLast = NoDbCall
    /\ mainReturned = <<{}, {}>>

\* No function registered under 'menus_modify_menu_items'
InitRegIdle == hooksModify = <<>>

\* No tag or helper called
NoTagRun == [call |-> "none"]

InitTagsIdle == tagRun = NoTagRun

\* No derivation started
NoDerivation == [pc |-> "none"]

InitUrlIdle == drv = NoDerivation

\* No template name helper called
NoLevelCall == [call |-> "none"]

InitLvlIdle == lvlCall = NoLevelCall

\* No children menu arguments are being validated
NoChildRun == [pc |-> "none"]

InitChildIdle == childRun = NoChildRun

\* No nested render is under way
NoNest == [pc |-> "none"]

InitNestIdle == nest = NoNest

\* No hooks are being called with keyword arguments
NoKw == [pc |-> "none"]

InitKwIdle == hookRun = NoKw

\* pages_for_display is not being evaluated
NoPfd == [pc |-> "none"]

InitPfdIdle == pfdRun = NoPfd

\* SectionMenu.get_context_data is not being called
NoSect == [pc |-> "none"]

InitSectIdle == sectRun = NoSect

\* No menu instance is being rendered repeatedly
NoActive == [pc |-> "none"]

InitActiveIdle == actRun = NoActive

\* No menu is being added to
NoAdd == [pc |-> "none"]

InitAddIdle == addRun = NoAdd

InitMoreIdle == InitChildIdle /\ InitNestIdle /\ InitKwIdle /\ InitPfdIdle /\ InitSectIdle /\ InitActiveIdle /\ InitAddIdle

\* Every part modelled before the children menu is at rest
InitBaseIdle ==
    /\ InitPrimeIdle /\ InitPipeIdle /\ InitPagesIdle /\ InitMenuIdle
    /\ InitTplIdle /\ InitDbIdle /\ InitRegIdle /\ InitTagsIdle /\ InitUrlIdle
    /\ InitLvlIdle

InitLaterIdle == InitRegIdle /\ InitTagsIdle /\ InitUrlIdle /\ InitLvlIdle /\ InitMoreIdle

(***************************************************************************)
(* Priming calls: the inputs a render can hand to prime_menu_items         *)
(***************************************************************************)

\* The elements of seq at the indices in S, in seq's order
RECURSIVE SelectIdx(_, _)
SelectIdx(seq, S) ==
    IF seq = <<>> THEN <<>>
    ELSE LET rest == SelectIdx(Tail(seq), {i - 1 : i \in S \ {1}})
         IN  IF 1 \in S THEN <<Head(seq)>> \o rest ELSE rest

\* Every list a queryset filter can leave of seq
SubLists(seq) == {SelectIdx(seq, S) : S \in SUBSET (DOMAIN seq)}

\* ids of the strict ancestors of a page
AncestorsOf(p) ==
    {q \in Pages : q # p /\ StartsWith(PagePath[p], PagePath[q])}

\* current_page_ancestor_ids: the ancestors from the section root down
AncestorIds(cp) ==
    IF cp = NONE THEN {}
    ELSE {q \in AncestorsOf(cp) : Depth(q) >= SECTION_ROOT_DEPTH}

\* [Page objects for the ids of a list]
PageObjs(ps) == [i \in DOMAIN ps |-> PageObj(ps[i])]

\* The levels a render can be at, and the max_levels it can have
Levels == 1..MaxLevel

CurrentPages == {NONE, 3, 5}

\* The contextual and option values of a render, and the answers of the
\* pages' own has_submenu_items / show_in_menus_custom methods
RenderCtxs(kind, root, pfdOf(_)) ==
    {[called |-> FALSE, menu |-> kind, root_page |-> root,
      root_specific |-> FALSE, current_page |-> cp, current_page_ancestor_ids |-> AncestorIds(cp),
      current_level |-> lvl, max_levels |-> ml, use_specific |-> us,
      apply_active_classes |-> aac, allow_repeating_parents |-> arp,
      use_absolute_page_urls |-> abs, request_path |-> "/about/",
      has_submenu_items |-> hsi, show_in_menus_custom |-> simc,
      pages_for_display |-> pfdOf(ml)] :
        cp \in CurrentPages, lvl \in Levels, ml \in Levels,
        us \in {USE_SPECIFIC_OFF, USE_SPECIFIC_AUTO},
        aac \in BOOLEAN, arp \in BOOLEAN, abs \in BOOLEAN,
        hsi \in BOOLEAN, simc \in BOOLEAN}

\* The raw items of a menu with menu items (main or flat menu): top-level
\* items left by the querysets, with the menu's pages_for_display
InitTopLevelItems ==
    \E items \in SubLists(StoredMenuItems) :
    \E c \in RenderCtxs("items", NONE,
                        LAMBDA ml : ItemsPagesForDisplay(items, ml, FixtureBase)) :
        /\ primeIn = items
        /\ primeCtx = c

\* The raw items of a menu built from a root page (section, children or sub
\* menu): children of its root page
InitChildPages ==
    \E root \in {2, 3, 4} :
    \E c \in RenderCtxs("root", root,
                        LAMBDA ml : RootPagesForDisplay(root, ml, FixtureBase)) :
    \E pages \in SubLists(ChildrenForPage(root, c.pages_for_display)) :
        /\ primeIn = PageObjs(pages)
        /\ primeCtx = c

\* The raw items of a menu built from a root page after a
\* menus_modify_raw_menu_items hook has put a link page among them
InitHookedPages ==
    \E c \in RenderCtxs("root", 2,
                        LAMBDA ml : RootPagesForDisplay(2, ml, FixtureBase)) :
    \E pages \in SubLists(ChildrenForPage(2, c.pages_for_display)) :
    \E k \in 0..Len(pages), lp \in LinkPages :
        /\ primeIn = PageObjs(SubSeq(pages, 1, k) \o <<lp>>
                                 \o SubSeq(pages, k + 1, Len(pages)))
        /\ primeCtx = c

InitPrime ==
    /\ InitTopLevelItems \/ InitChildPages \/ InitHookedPages
    /\ primeOut = <<>>
    /\ InitPipeIdle /\ InitPagesIdle /\ InitMenuIdle
    /\ InitTplIdle /\ InitDbIdle /\ InitLaterIdle

\* MenuWithMenuItems: self.prime_menu_items(items) on the top-level items
PrimeTopLevelItems ==
    /\ ~primeCtx.called
    /\ primeCtx.menu = "items"
    /\ primeOut' = PrimeMenuItems(primeIn, primeCtx)
    /\ primeCtx' = [primeCtx EXCEPT !.called = TRUE]
    /\ UNCHANGED <<primeIn, notPrime>>

\* MenuFromRootPage: self.prime_menu_items(items) on the root's children
PrimeChildPages ==
    /\ ~primeCtx.called
    /\ primeCtx.menu = "root"
    /\ primeOut' = PrimeMenuItems(primeIn, primeCtx)
    /\ primeCtx' = [primeCtx EXCEPT !.called = TRUE]
    /\ UNCHANGED <<primeIn, notPrime>>

NextPrime == PrimeTopLevelItems \/ PrimeChildPages

SpecPrime == InitPrime /\ [][NextPrime]_vars

\* An item that goes through the page branch of prime_menu_items
IsPageLinked(item) ==
    \/ item.kind = "MenuItem" /\ item.link_page # NONE
    \/ item.kind = "Page" /\ item.id \notin LinkPages

\* C2: with apply_active_classes on, every page-linked item gets ACTIVE_CLASS
\* when its page is the current page, ACTIVE_ANCESTOR_CLASS when its page is
\* another page in current_page_ancestor_ids, and '' otherwise; the one
\* exception is the current page's item when allow_repeating_parents and
\* use_specific are set, the item has children in the menu and the page has
\* repeat_in_subnav: it gets ACTIVE_ANCESTOR_CLASS.
C2_ActiveClass ==
    (primeCtx.called /\ primeCtx.apply_active_classes) =>
        \A i \in DOMAIN primeOut :
            LET item == primeOut[i]
                c == primeCtx
                isCurrent == c.current_page # NONE /\ item.link_page = c.current_page
                repeated == /\ isCurrent
                            /\ c.allow_repeating_parents
                            /\ c.use_specific # USE_SPECIFIC_OFF
                            /\ item.has_children_in_menu
                            /\ item.link_page \in RepeatInSubnavPages
            IN  IsPageLinked(item) =>
                  /\ "active_class" \in item.attrs
                  /\ item.active_class =
                        IF repeated THEN ACTIVE_ANCESTOR_CLASS
                        ELSE IF isCurrent THEN ACTIVE_CLASS
                        ELSE IF item.link_page \in c.current_page_ancestor_ids
                             THEN ACTIVE_ANCESTOR_CLASS
                        ELSE ""

\* C2 witness: one priming call produced an active item, an ancestor item
\* and the repeated-parent exception is among the reachable outputs
C2_Witness ==
    /\ primeCtx.called /\ primeCtx.apply_active_classes
    /\ \E i \in DOMAIN primeOut :
          /\ IsPageLinked(primeOut[i])
          /\ primeOut[i].link_page = primeCtx.current_page
          /\ primeOut[i].link_page \in RepeatInSubnavPages
          /\ primeOut[i].has_children_in_menu
          /\ primeOut[i].active_class = ACTIVE_ANCESTOR_CLASS
    /\ \E i \in DOMAIN primeOut :
          /\ IsPageLinked(primeOut[i])
          /\ primeOut[i].link_page # primeCtx.current_page
          /\ primeOut[i].active_class = ""

\* C3: has_children_in_menu is true on a page-linked item only if
\* current_level < max_levels, the page's depth >= SECTION_ROOT_DEPTH and
\* (for a MenuItem) allow_subnav is true; at current_level >= max_levels it
\* is false whatever the tree or has_submenu_items says.
C3_HasChildrenOnlyIf ==
    primeCtx.called =>
        \A i \in DOMAIN primeOut :
            LET item == primeOut[i] IN
            IsPageLinked(item) =>
              /\ "has_children_in_menu" \in item.attrs
              /\ item.has_children_in_menu =>
                    /\ primeCtx.current_level < primeCtx.max_levels
                    /\ Depth(item.link_page) >= SECTION_ROOT_DEPTH
                    /\ (item.kind = "MenuItem" => item.allow_subnav)

\* C3 witness: at the last level, a page whose has_submenu_items method says
\* True, and which has children in the tree, is primed without children
C3_Witness ==
    /\ primeCtx.called
    /\ primeCtx.current_level >= primeCtx.max_levels
    /\ primeCtx.has_submenu_items
    /\ primeCtx.use_specific # USE_SPECIFIC_OFF
    /\ \E i \in DOMAIN primeOut :
          /\ IsPageLinked(primeOut[i])
          /\ primeOut[i].link_page \in MenuPages
          /\ \E q \in FixtureBase :
                ParentPath(PagePath[q]) = PagePath[primeOut[i].link_page]
          /\ "has_children_in_menu" \in primeOut[i].attrs
          /\ ~primeOut[i].has_children_in_menu

(***************************************************************************)
(* Menu.get_primed_menu_items and the two hook points                      *)
(***************************************************************************)

\* Bound on the number of functions registered under one hook name
MaxHooks == 2

\* The functions a site registers as hooks: each takes the item list and
\* returns a list
HookFns == {"append", "reverse", "drop_first"}

RECURSIVE Reverse(_)
Reverse(seq) ==
    IF seq = <<>> THEN <<>> ELSE Reverse(Tail(seq)) \o <<Head(seq)>>

\* hook(items, **hook_kwargs)
CallHook(fn, items) ==
    CASE fn = "append" -> Append(items, PageObj(4))
      [] fn = "reverse" -> Reverse(items)
      [] fn = "drop_first" -> IF items = <<>> THEN <<>> ELSE Tail(items)

\* Mutant: hooks.get_hooks(name) iterated last-registered first
HookAt_Reversed(hooks, i) == hooks[Len(hooks) + 1 - i]

\* for hook in hooks.get_hooks(name): the i-th hook, in registration order
HookAt(hooks, i) == hooks[i]

\* root.modify_submenu_items(menu_items, **kwargs): the root page's own
\* method; it puts a repeated item for the root page first
RootModifySubmenuItems(items, c) ==
    <<SetHref(SetText(PageObj(c.root_page), "repeated_item_text"), HrefFor(c))>>
        \o items

\* Menu.modify_menu_items / MenuFromRootPage.modify_menu_items
ModifyMenuItems(items, c) ==
    IF /\ c.menu = "root"
       /\ c.use_specific # USE_SPECIFIC_OFF
       /\ c.root_specific
       /\ c.root_page \in MenuPages
    THEN RootModifySubmenuItems(items, c)
    ELSE items

\* MenuWithMenuItems.get_raw_menu_items / MenuFromRootPage.get_raw_menu_items
GetRawMenuItems(c) ==
    IF c.menu = "items"
    THEN StoredMenuItems
    ELSE PageObjs(ChildrenForPage(c.root_page, c.pages_for_display))

\* The menus whose get_primed_menu_items is followed step by step
PipeMenus ==
    LET base == {x \in RenderCtxs("items", NONE,
                        LAMBDA ml : ItemsPagesForDisplay(StoredMenuItems, ml, FixtureBase))
                   \cup RenderCtxs("root", 3,
                        LAMBDA ml : RootPagesForDisplay(3, ml, FixtureBase)) :
                 /\ x.current_page = 5 /\ x.current_level = 1
                 /\ x.max_levels = MaxLevel
                 /\ x.apply_active_classes /\ x.allow_repeating_parents
                 /\ ~x.use_absolute_page_urls
                 /\ x.has_submenu_items /\ x.show_in_menus_custom}
    IN  base \cup {[c EXCEPT !.root_specific = TRUE] : c \in {x \in base : x.menu = "root"}}

LogEntry(call, n) == [call |-> call, n |-> n]

\* @hooks.register('menus_modify_raw_menu_items')
RegisterRawHook ==
    /\ pipePc = "idle"
    /\ Len(hooksRaw) < MaxHooks
    /\ \E fn \in HookFns : hooksRaw' = Append(hooksRaw, fn)
    /\ UNCHANGED <<hooksPrimed, pipePc, pipeIdx, pipeItems, pipeLog, pipeMenu, notPipe>>

\* @hooks.register('menus_modify_primed_menu_items')
RegisterPrimedHook ==
    /\ pipePc = "idle"
    /\ Len(hooksPrimed) < MaxHooks
    /\ \E fn \in HookFns : hooksPrimed' = Append(hooksPrimed, fn)
    /\ UNCHANGED <<hooksRaw, pipePc, pipeIdx, pipeItems, pipeLog, pipeMenu, notPipe>>

\* @hooks.register('menus_modify_menu_items'): the function of the test,
\* which appends an item; it is registered once
RegisterModifyHook ==
    /\ pipePc = "idle"
    /\ hooksModify = <<>>
    /\ hooksModify' = <<"append">>
    /\ UNCHANGED <<vPipe, notPipe_Reg>>

\* items = self.get_raw_menu_items()
PipeGetRaw ==
    /\ pipePc = "idle"
    /\ \E c \in PipeMenus :
          /\ pipeMenu' = c
          /\ pipeItems' = GetRawMenuItems(c)
    /\ pipePc' = "raw_hooks"
    /\ pipeIdx' = 1
    /\ pipeLog' = <<>>
    /\ UNCHANGED <<hooksRaw, hooksPrimed, notPipe>>

\* one turn of: for hook in get_hooks('menus_modify_raw_menu_items')
PipeRawHook ==
    /\ pipePc = "raw_hooks"
    /\ pipeIdx <= Len(hooksRaw)
    /\ pipeItems' = CallHook(HookAt(hooksRaw, pipeIdx), pipeItems)
    /\ pipeLog' = Append(pipeLog, LogEntry("raw_hook", pipeIdx))
    /\ pipeIdx' = pipeIdx + 1
    /\ UNCHANGED <<hooksRaw, hooksPrimed, pipePc, pipeMenu, notPipe>>

\* self.prime_menu_items(items), once the raw hooks are exhausted
PipePrime ==
    /\ pipePc = "raw_hooks"
    /\ pipeIdx > Len(hooksRaw)
    /\ pipeItems' = PrimeMenuItems(pipeItems, pipeMenu)
    /\ pipeLog' = Append(pipeLog, LogEntry("prime_menu_items", 0))
    /\ pipePc' = "primed"
    /\ UNCHANGED <<hooksRaw, hooksPrimed, pipeIdx, pipeMenu, notPipe>>

\* items = self.modify_menu_items(<the primed items>)
PipeModify ==
    /\ pipePc = "primed"
    /\ pipeItems' = ModifyMenuItems(pipeItems, pipeMenu)
    /\ pipeLog' = Append(pipeLog, LogEntry("modify_menu_items", 0))
    /\ pipePc' = "primed_hooks"
    /\ pipeIdx' = 1
    /\ UNCHANGED <<hooksRaw, hooksPrimed, pipeMenu, notPipe>>

\* one turn of: for hook in get_hooks('menus_modify_primed_menu_items')
PipePrimedHook ==
    /\ pipePc = "primed_hooks"
    /\ pipeIdx <= Len(hooksPrimed)
    /\ pipeItems' = CallHook(HookAt(hooksPrimed, pipeIdx), pipeItems)
    /\ pipeLog' = Append(pipeLog, LogEntry("primed_hook", pipeIdx))
    /\ pipeIdx' = pipeIdx + 1
    /\ UNCHANGED <<hooksRaw, hooksPrimed, pipePc, pipeMenu, notPipe>>

\* return items
PipeReturn ==
    /\ pipePc = "primed_hooks"
    /\ pipeIdx > Len(hooksPrimed)
    /\ pipePc' = "done"
    /\ UNCHANGED <<hooksRaw, hooksPrimed, pipeIdx, pipeItems, pipeLog, pipeMenu, notPipe>>

InitPipe ==
    /\ InitPipeIdle /\ InitPrimeIdle /\ InitPagesIdle /\ InitMenuIdle
    /\ InitTplIdle /\ InitDbIdle /\ InitLaterIdle

NextPipe ==
    \/ RegisterRawHook
    \/ RegisterPrimedHook
    \/ RegisterModifyHook
    \/ PipeGetRaw
    \/ PipeRawHook
    \/ PipePrime
    \/ PipeModify
    \/ PipePrimedHook
    \/ PipeReturn

SpecPipe == InitPipe /\ [][NextPipe]_vars

\* The hooks of a list applied in registration order, each to the list the
\* previous one returned
RECURSIVE ApplyHooks(_, _)
ApplyHooks(hooks, items) ==
    IF hooks = <<>> THEN items
    ELSE ApplyHooks(Tail(hooks), CallHook(Head(hooks), items))

\* The calls of a whole pass: raw hooks 1..nr, priming, modify, primed hooks
ExpectedLog(nr, np) ==
    [i \in 1..nr |-> LogEntry("raw_hook", i)]
        \o <<LogEntry("prime_menu_items", 0), LogEntry("modify_menu_items", 0)>>
        \o [i \in 1..np |-> LogEntry("primed_hook", i)]

\* C1: get_primed_menu_items applies every 'menus_modify_raw_menu_items' hook
\* in registration order to the raw list, then prime_menu_items and
\* modify_menu_items, then every 'menus_modify_primed_menu_items' hook in
\* registration order, and returns the last hook's list; no raw-stage hook
\* runs after priming and no primed-stage hook before it.
C1_HookOrder ==
    /\ \A i, j \in DOMAIN pipeLog :
          i < j => /\ ~(pipeLog[j].call = "raw_hook" /\ pipeLog[i].call # "raw_hook")
                   /\ ~(pipeLog[i].call = "primed_hook"
                            /\ pipeLog[j].call \in {"prime_menu_items", "modify_menu_items"})
    /\ pipePc = "done" =>
          /\ pipeLog = ExpectedLog(Len(hooksRaw), Len(hooksPrimed))
          /\ pipeItems =
                ApplyHooks(hooksPrimed,
                    ModifyMenuItems(
                        PrimeMenuItems(
                            ApplyHooks(hooksRaw, GetRawMenuItems(pipeMenu)),
                            pipeMenu),
                        pipeMenu))

\* C1 witness: a finished pass with two hooks at each stage whose order shows
\* in the result
C1_Witness ==
    /\ pipePc = "done"
    /\ hooksRaw = <<"append", "reverse">>
    /\ hooksPrimed = <<"drop_first", "append">>
    /\ pipeMenu.menu = "root" /\ pipeMenu.root_specific
    /\ pipeMenu.use_specific # USE_SPECIFIC_OFF
    /\ Len(pipeItems) = 3

\* C13 (as stated): a function registered under 'menus_modify_menu_items' is
\* called during the render with the item list, and the list it returns is the
\* list that is rendered; so when it is the only hook, the item it appends at
\* the first level is in the list get_primed_menu_items returns, once
C13_AsStated ==
    (pipePc = "done" /\ hooksModify # <<>>) =>
        /\ \A i \in 1..Len(hooksModify) :
              \E k \in 1..Len(pipeLog) : pipeLog[k] = LogEntry("modify_hook", i)
        /\ (hooksRaw = <<>> /\ hooksPrimed = <<>>) =>
              pipeItems = ApplyHooks(hooksModify,
                            ModifyMenuItems(
                                PrimeMenuItems(GetRawMenuItems(pipeMenu), pipeMenu),
                                pipeMenu))

(***************************************************************************)
(* MenuWithMenuItems.render_init: the options of the main_menu and         *)
(* flat_menu tags                                                          *)
(***************************************************************************)

UseSpecificValues ==
    {USE_SPECIFIC_OFF, USE_SPECIFIC_AUTO, USE_SPECIFIC_TOP_LEVEL, USE_SPECIFIC_ALWAYS}

\* Menu.clear_page_cache
ClearPageCache(m) ==
    [m EXCEPT !.pages_for_display = [cached |-> FALSE, pages |-> {}, specific |-> FALSE],
              !.page_children_dict = [cached |-> FALSE]]

\* Menu.set_max_levels
SetMaxLevels(m, max_levels) ==
    IF m.max_levels # max_levels
    THEN ClearPageCache([m EXCEPT !.max_levels = max_levels])
    ELSE m

\* MenuWithMenuItems.render_init: after Menu.render_init has stored the
\* contextual and option values, both options go through set_max_levels
RenderInit(m, options) ==
    SetMaxLevels(SetMaxLevels(m, options.max_levels), options.use_specific)

\* The options a tag hands to menu.render: max_levels is 1 when
\* show_multiple_levels is off
TagOptions(max_levels, use_specific, show_multiple_levels) ==
    [max_levels |-> IF show_multiple_levels THEN max_levels ELSE 1,
     use_specific |-> use_specific]

\* The arguments a template can give to main_menu / flat_menu
TagCalls(tag) ==
    {[tag |-> tag, max_levels |-> ml, use_specific |-> us,
      show_multiple_levels |-> sml] :
        ml \in {NONE} \cup Levels, us \in {NONE} \cup UseSpecificValues,
        sml \in BOOLEAN}

InitRender ==
    /\ stored \in [max_levels : Levels, use_specific : UseSpecificValues]
    /\ menu = FreshMenu(stored)
    /\ tagCall = NoTagCall
    /\ InitPagesIdle /\ InitPrimeIdle /\ InitPipeIdle
    /\ InitTplIdle /\ InitDbIdle /\ InitLaterIdle

\* {% main_menu %}: the site's menu is fetched and render_init is run on it
MainMenuTag ==
    /\ \E call \in TagCalls("main_menu") :
          /\ tagCall' = call
          /\ menu' = RenderInit(FreshMenu(stored),
                        TagOptions(call.max_levels, call.use_specific,
                                   call.show_multiple_levels))
    /\ UNCHANGED <<stored, vPages, notMenu>>

\* {% flat_menu handle %}: the matching menu is fetched and render_init is
\* run on it
FlatMenuTag ==
    /\ \E call \in TagCalls("flat_menu") :
          /\ tagCall' = call
          /\ menu' = RenderInit(FreshMenu(stored),
                        TagOptions(call.max_levels, call.use_specific,
                                   call.show_multiple_levels))
    /\ UNCHANGED <<stored, vPages, notMenu>>

NextRender == MainMenuTag \/ FlatMenuTag

SpecRender == InitRender /\ [][NextRender]_vars

\* C4: after render_init the menu's max_levels is the max_levels option and
\* its use_specific is the use_specific option, each when supplied; an option
\* that is not supplied leaves the value stored on the record in effect.
C4_OptionsInEffect ==
    tagCall.tag # "none" =>
        LET opts == TagOptions(tagCall.max_levels, tagCall.use_specific,
                               tagCall.show_multiple_levels)
        IN  /\ menu.max_levels =
                  IF opts.max_levels # NONE THEN opts.max_levels
                  ELSE stored.max_levels
            /\ menu.use_specific =
                  IF opts.use_specific # NONE THEN opts.use_specific
                  ELSE stored.use_specific

(***************************************************************************)
(* MenuWithMenuItems.top_level_items                                       *)
(***************************************************************************)

\* The functions registered for 'menus_modify_base_page_queryset': each
\* filters the queryset it is given
PageHookFns == <<"exclude_home", "exclude_section_b">>

\* hook(qs, **kwargs) for a page queryset
CallPageHook(fn, qs) ==
    CASE fn = "exclude_home" -> qs \ {2}
      [] fn = "exclude_section_b" ->
            {p \in qs : ~StartsWith(PagePath[p], PagePath[4])}

RECURSIVE ApplyPageHooks(_, _)
ApplyPageHooks(hooks, qs) ==
    IF hooks = <<>> THEN qs
    ELSE ApplyPageHooks(Tail(hooks), CallPageHook(Head(hooks), qs))

\* Menu.get_base_page_queryset
BasePageQueryset(liveS, expiredS, showS, hooks) ==
    ApplyPageHooks(hooks, DisplayablePages(liveS, expiredS, showS))

\* The functions registered for 'menus_modify_base_menuitem_queryset'
ItemHookFns == <<"exclude_custom_urls", "exclude_first">>

\* whether a menu item passes the filter a hook function applies
ItemHookKeeps(fn, item) ==
    CASE fn = "exclude_custom_urls" -> item.link_page # NONE
      [] fn = "exclude_first" -> item.id # 1

RECURSIVE ApplyItemHooks(_, _)
ApplyItemHooks(hooks, qs) ==
    IF hooks = <<>> THEN qs
    ELSE ApplyItemHooks(Tail(hooks),
            SelectSeq(qs, LAMBDA item : ItemHookKeeps(Head(hooks), item)))

\* MenuItemManager.for_display, as a test on one row
ForDisplay(item, liveS, expiredS, showS) ==
    \/ item.link_page = NONE
    \/ /\ item.link_page \in liveS
       /\ item.link_page \notin expiredS
       /\ item.link_page \in showS

\* MenuWithMenuItems.get_base_menuitem_queryset
BaseMenuItemQueryset(liveS, expiredS, showS, hooks) ==
    ApplyItemHooks(hooks,
        SelectSeq(StoredMenuItems,
                  LAMBDA item : ForDisplay(item, liveS, expiredS, showS)))

\* Mutant: top_level_items without the filter on the linked pages
TopLevelItems_NoPageFilter(use_specific, liveS, expiredS, showS, pageHooks, itemHooks) ==
    [cached |-> TRUE,
     items |-> BaseMenuItemQueryset(liveS, expiredS, showS, itemHooks),
     specific |-> use_specific >= USE_SPECIFIC_TOP_LEVEL]

\* MenuWithMenuItems.top_level_items
TopLevelItems(use_specific, liveS, expiredS, showS, pageHooks, itemHooks) ==
    LET menu_items == BaseMenuItemQueryset(liveS, expiredS, showS, itemHooks)
        top_level_pages ==
            {p \in BasePageQueryset(liveS, expiredS, showS, pageHooks) :
                \E i \in DOMAIN menu_items : menu_items[i].link_page = p}
    IN  [cached |-> TRUE,
         items |-> SelectSeq(menu_items,
                      LAMBDA item : \/ item.link_page = NONE
                                    \/ item.link_page \in top_level_pages),
         specific |-> use_specific >= USE_SPECIFIC_TOP_LEVEL]

InitTopLevel ==
    /\ live \in {Pages, Pages \ {3}}
    /\ expired \in {{}, {5}}
    /\ showInMenus \in {Pages \ {6}, Pages \ {4, 6}}
    /\ hooksBPQ \in SubLists(PageHookFns)
    /\ hooksMIQ \in SubLists(ItemHookFns)
    /\ stored \in [max_levels : {MAIN_MENU_DEFAULT_MAX_LEVELS},
                   use_specific : UseSpecificValues]
    /\ menu = FreshMenu(stored)
    /\ tagCall = NoTagCall
    /\ InitPrimeIdle /\ InitPipeIdle
    /\ InitTplIdle /\ InitDbIdle /\ InitLaterIdle

\* The first read of menu.top_level_items (a cached_property)
ReadTopLevelItems ==
    /\ ~menu.top_level_items.cached
    /\ menu' = [menu EXCEPT !.top_level_items =
                    TopLevelItems(menu.use_specific, live, expired, showInMenus,
                                  hooksBPQ, hooksMIQ)]
    /\ UNCHANGED <<stored, tagCall, vPages, notMenu>>

NextTopLevel == ReadTopLevelItems

SpecTopLevel == InitTopLevel /\ [][NextTopLevel]_vars

\* whether a stored row is in a list of items
InItems(item, items) == \E i \in DOMAIN items : items[i].id = item.id

\* the items of a list are in the stored order, each at most once
InStoredOrder(items) ==
    \A i, j \in DOMAIN items : i < j => items[i].id < items[j].id

\* C5 as stated: top_level_items holds, in stored order, every for_display
\* item without a linked page and every item whose linked page is in
\* get_base_page_queryset(), and no item whose linked page is not in it.
C5_AsStated ==
    menu.top_level_items.cached =>
        LET items == menu.top_level_items.items
            bpq == BasePageQueryset(live, expired, showInMenus, hooksBPQ)
        IN  /\ InStoredOrder(items)
            /\ \A k \in DOMAIN StoredMenuItems :
                  LET row == StoredMenuItems[k] IN
                  /\ (row.link_page = NONE
                        /\ ForDisplay(row, live, expired, showInMenus))
                        => InItems(row, items)
                  /\ (row.link_page # NONE /\ row.link_page \in bpq)
                        => InItems(row, items)
                  /\ (row.link_page # NONE /\ row.link_page \notin bpq)
                        => ~InItems(row, items)

\* C5 (amended): top_level_items holds, in stored order, exactly the items of
\* get_base_menuitem_queryset() (for_display after every
\* 'menus_modify_base_menuitem_queryset' hook) that have no linked page or
\* whose linked page is in get_base_page_queryset(); an item whose linked
\* page is not in that queryset never appears.
C5_TopLevelItems ==
    menu.top_level_items.cached =>
        LET items == menu.top_level_items.items
            bpq == BasePageQueryset(live, expired, showInMenus, hooksBPQ)
            inItemQs(row) ==
                /\ ForDisplay(row, live, expired, showInMenus)
                /\ \A h \in DOMAIN hooksMIQ : ItemHookKeeps(hooksMIQ[h], row)
        IN  /\ InStoredOrder(items)
            /\ \A k \in DOMAIN StoredMenuItems :
                  LET row == StoredMenuItems[k] IN
                  InItems(row, items) <=>
                      /\ inItemQs(row)
                      /\ (row.link_page = NONE \/ row.link_page \in bpq)

\* C5 witness: the list was built with a page hook in force that hides the
\* page of a displayable item, and it keeps a custom-URL item and a page item
C5_Witness ==
    /\ menu.top_level_items.cached
    /\ hooksBPQ = <<"exclude_home">>
    /\ 2 \in DisplayablePages(live, expired, showInMenus)
    /\ ~InItems(StoredMenuItems[4], menu.top_level_items.items)
    /\ InItems(StoredMenuItems[3], menu.top_level_items.items)
    /\ InItems(StoredMenuItems[1], menu.top_level_items.items)

(***************************************************************************)
(* Template lookup: get_template, get_template_names and the sub menu      *)
(* counterparts.  A template name is the sequence of the words and         *)
(* separators it is made of; "%s" in a format string takes such a sequence.*)
(***************************************************************************)
RECURSIVE Cat(_)
\* "..." % (...): the parts of a name, joined
Cat(parts) == IF parts = <<>> THEN <<>> ELSE Head(parts) \o Cat(Tail(parts))

\* whether `word` occurs in `name`
Contains(name, word) ==
    \E i \in 1..(Len(name) - Len(word) + 1) :
        SubSeq(name, i, i + Len(word) - 1) = word

\* The sites and their hostnames
Sites == {1, 2}
Hostname(site) == IF site = 1 THEN <<"example.com">> ELSE <<"flat">>

\* The handles a flat menu can have
Handles == {<<"footer">>, <<"default">>}

\* The menu classes, named by their menu_short_name
MenuClasses == {"main", "flat", "section", "children", "sub"}
MenuShortName(cls) == <<cls>>

\* get_least_specific_template_name: the value of the class's setting, and
\* None (the empty name) for a class that has none
LeastSpecificTemplateName(cls) ==
    CASE cls = "main" -> <<"DEFAULT_MAIN_MENU_TEMPLATE">>
      [] cls = "flat" -> <<"DEFAULT_FLAT_MENU_TEMPLATE">>
      [] cls = "section" -> <<"DEFAULT_SECTION_MENU_TEMPLATE">>
      [] cls = "children" -> <<"DEFAULT_CHILDREN_MENU_TEMPLATE">>
      [] OTHER -> <<>>

DEFAULT_SUB_MENU_TEMPLATE == <<"DEFAULT_SUB_MENU_TEMPLATE">>

\* Mutant: the generic names put before the names of the site
MenuTemplateNames_GenericFirst(m) ==
    LET menu_str == MenuShortName(m.cls)
        lstn == LeastSpecificTemplateName(m.cls)
    IN  << Cat(<< <<"menus", "/">>, menu_str, <<"/", "menu", ".html">> >>) >>
        \o (IF m.site_specific /\ m.site # NONE
            THEN LET hostname == Hostname(m.site) IN
                 << Cat(<< <<"menus", "/">>, hostname, <<"/">>, menu_str,
                           <<"/", "menu", ".html">> >>),
                    Cat(<< <<"menus", "/">>, hostname, <<"/">>, menu_str,
                           <<"_", "menu", ".html">> >>) >>
            ELSE <<>>)
        \o (IF lstn # <<>> THEN <<lstn>> ELSE <<>>)

\* Menu.get_template_names
MenuTemplateNames(m) ==
    LET menu_str == MenuShortName(m.cls)
        lstn == LeastSpecificTemplateName(m.cls)
    IN  (IF m.site_specific /\ m.site # NONE
         THEN LET hostname == Hostname(m.site) IN
              << Cat(<< <<"menus", "/">>, hostname, <<"/">>, menu_str,
                        <<"/", "menu", ".html">> >>),
                 Cat(<< <<"menus", "/">>, hostname, <<"/">>, menu_str,
                        <<"_", "menu", ".html">> >>) >>
         ELSE <<>>)
        \o << Cat(<< <<"menus", "/">>, menu_str, <<"/", "menu", ".html">> >>) >>
        \o (IF lstn # <<>> THEN <<lstn>> ELSE <<>>)

\* MultiLevelMenu.get_sub_menu_template_names
MultiLevelSubMenuTemplateNames(m) ==
    LET menu_str == MenuShortName(m.cls)
    IN  (IF m.site_specific /\ m.site # NONE
         THEN LET hostname == Hostname(m.site) IN
              << Cat(<< <<"menus", "/">>, hostname, <<"/">>, menu_str,
                        <<"/", "sub", "_", "menu", ".html">> >>),
                 Cat(<< <<"menus", "/">>, hostname, <<"/">>, menu_str,
                        <<"_", "sub", "_", "menu", ".html">> >>),
                 Cat(<< <<"menus", "/">>, hostname,
                        <<"/", "sub", "_", "menu", ".html">> >>) >>
         ELSE <<>>)
        \o << Cat(<< <<"menus", "/">>, menu_str,
                     <<"/", "sub", "_", "menu", ".html">> >>),
              Cat(<< <<"menus", "/">>, menu_str,
                     <<"_", "sub", "_", "menu", ".html">> >>),
              DEFAULT_SUB_MENU_TEMPLATE >>

\* DefinesSubMenuTemplatesMixin.get_sub_menu_template_names
MixinSubMenuTemplateNames(m) ==
    LET menu_str == MenuShortName(m.cls)
        current_site == m.site
    IN  (IF m.site_specific /\ current_site # NONE
         THEN LET hostname == Hostname(current_site) IN
              << Cat(<< <<"menus", "/">>, hostname, <<"/">>, menu_str,
                        <<"/", "sub", "_", "menu", ".html">> >>),
                 Cat(<< <<"menus", "/">>, hostname, <<"/">>, menu_str,
                        <<"_", "sub", "_", "menu", ".html">> >>),
                 Cat(<< <<"menus", "/">>, hostname,
                        <<"/", "sub", "_", "menu", ".html">> >>) >>
         ELSE <<>>)
        \o << Cat(<< <<"menus", "/">>, menu_str,
                     <<"/", "sub", "_", "menu", ".html">> >>),
              Cat(<< <<"menus", "/">>, menu_str,
                     <<"_", "sub", "_", "menu", ".html">> >>),
              DEFAULT_SUB_MENU_TEMPLATE >>

\* AbstractFlatMenu.get_template_names
FlatTemplateNames(m) ==
    LET lstn == LeastSpecificTemplateName(m.cls)
    IN  (IF m.site_specific /\ m.site # NONE
         THEN LET hn == Hostname(m.site) IN
              << Cat(<< <<"menus", "/">>, hn, <<"/", "flat", "/">>, m.handle,
                        <<"/", "menu", ".html">> >>),
                 Cat(<< <<"menus", "/">>, hn, <<"/", "flat", "/">>, m.handle,
                        <<".html">> >>),
                 Cat(<< <<"menus", "/">>, hn, <<"/">>, m.handle,
                        <<"/", "menu", ".html">> >>),
                 Cat(<< <<"menus", "/">>, hn, <<"/">>, m.handle,
                        <<".html">> >>),
                 Cat(<< <<"menus", "/">>, hn,
                        <<"/", "flat", "/", "menu", ".html">> >>),
                 Cat(<< <<"menus", "/">>, hn,
                        <<"/", "flat", "/", "default", ".html">> >>),
                 Cat(<< <<"menus", "/">>, hn,
                        <<"/", "flat", "_", "menu", ".html">> >>) >>
         ELSE <<>>)
        \o << Cat(<< <<"menus", "/", "flat", "/">>, m.handle,
                     <<"/", "menu", ".html">> >>),
              Cat(<< <<"menus", "/", "flat", "/">>, m.handle, <<".html">> >>),
              Cat(<< <<"menus", "/">>, m.handle, <<"/", "menu", ".html">> >>),
              Cat(<< <<"menus", "/">>, m.handle, <<".html">> >>),
              <<"menus", "/", "flat", "/", "default", ".html">>,
              <<"menus", "/", "flat", "/", "menu", ".html">> >>
        \o (IF lstn # <<>> THEN <<lstn>> ELSE <<>>)

\* AbstractFlatMenu.get_sub_menu_template_names
FlatSubMenuTemplateNames(m) ==
    (IF m.site_specific /\ m.site # NONE
     THEN LET hn == Hostname(m.site) IN
          << Cat(<< <<"menus", "/">>, hn, <<"/", "flat", "/">>, m.handle,
                    <<"/", "sub", "_", "menu", ".html">> >>),
             Cat(<< <<"menus", "/">>, hn, <<"/", "flat", "/">>, m.handle,
                    <<"_", "sub", "_", "menu", ".html">> >>),
             Cat(<< <<"menus", "/">>, hn, <<"/">>, m.handle,
                    <<"/", "sub", "_", "menu", ".html">> >>),
             Cat(<< <<"menus", "/">>, hn, <<"/">>, m.handle,
                    <<"_", "sub", "_", "menu", ".html">> >>),
             Cat(<< <<"menus", "/">>, hn,
                    <<"/", "flat", "/", "sub", "_", "menu", ".html">> >>),
             Cat(<< <<"menus", "/">>, hn,
                    <<"/", "sub", "_", "menu", ".html">> >>) >>
     ELSE <<>>)
    \o << Cat(<< <<"menus", "/", "flat", "/">>, m.handle,
                 <<"/", "sub", "_", "menu", ".html">> >>),
          Cat(<< <<"menus", "/", "flat", "/">>, m.handle,
                 <<"_", "sub", "_", "menu", ".html">> >>),
          Cat(<< <<"menus", "/">>, m.handle,
                 <<"/", "sub", "_", "menu", ".html">> >>),
          Cat(<< <<"menus", "/">>, m.handle,
                 <<"_", "sub", "_", "menu", ".html">> >>),
          <<"menus", "/", "flat", "/", "sub", "_", "menu", ".html">>,
          DEFAULT_SUB_MENU_TEMPLATE >>

\* self.get_template_names(), by the class of self
GetTemplateNames(m) ==
    IF m.cls = "flat" THEN FlatTemplateNames(m) ELSE MenuTemplateNames(m)

\* self.get_sub_menu_template_names(), by the class of self
GetSubMenuTemplateNames(m) ==
    IF m.cls = "flat" THEN FlatSubMenuTemplateNames(m)
    ELSE IF m.mixin THEN MixinSubMenuTemplateNames(m)
    ELSE MultiLevelSubMenuTemplateNames(m)

\* e.get_template(name): the template, or TemplateDoesNotExist
EngineGetTemplate(name, files) ==
    [call |-> "", found |-> name \in files, name |-> name, names |-> <<>>]

\* e.select_template(names): the first that exists, or TemplateDoesNotExist
EngineSelectTemplate(names, files) ==
    IF \E i \in DOMAIN names : names[i] \in files
    THEN LET i == CHOOSE k \in DOMAIN names :
                    /\ names[k] \in files
                    /\ \A j \in 1..(k - 1) : names[j] \notin files
         IN [call |-> "", found |-> TRUE, name |-> names[i], names |-> <<>>]
    ELSE [call |-> "", found |-> FALSE, name |-> <<>>, names |-> <<>>]

\* The template names a tag call or a menu class names
OptionTemplateName == <<"custom", "/", "option", ".html">>
OptionSubMenuTemplateName == <<"custom", "/", "option", "_", "sub", ".html">>
ClassAttrValue(attr) == <<"custom", "/", attr, ".html">>

\* Mutant: the class attribute looked at before the option of the tag
GetTemplate_AttributeFirst(m, files) ==
    IF "template_name" \in m.class_attrs
    THEN EngineGetTemplate(ClassAttrValue("template_name"), files)
    ELSE IF m.template_name # <<>>
    THEN EngineGetTemplate(m.template_name, files)
    ELSE EngineSelectTemplate(GetTemplateNames(m), files)

\* Menu.get_template
GetTemplate(m, files) ==
    LET specified == m.template_name
    IN  IF specified # <<>>
        THEN EngineGetTemplate(specified, files)
        ELSE IF "template_name" \in m.class_attrs
        THEN EngineGetTemplate(ClassAttrValue("template_name"), files)
        ELSE EngineSelectTemplate(GetTemplateNames(m), files)

\* MultiLevelMenu.get_sub_menu_template
GetSubMenuTemplate(m, files) ==
    LET specified == m.sub_menu_template_name
    IN  IF specified # <<>>
        THEN EngineGetTemplate(specified, files)
        ELSE IF "sub_menu_template" \in m.class_attrs
        THEN EngineGetTemplate(ClassAttrValue("sub_menu_template"), files)
        ELSE EngineSelectTemplate(GetSubMenuTemplateNames(m), files)

Range(seq) == {seq[i] : i \in DOMAIN seq}

\* The menus a lookup can be made for
TplMenus ==
    [cls : MenuClasses \ {"flat"}, mixin : BOOLEAN, site_specific : BOOLEAN,
     site : Sites \cup {NONE}, handle : {<<>>},
     template_name : {<<>>, OptionTemplateName},
     sub_menu_template_name : {<<>>, OptionSubMenuTemplateName},
     class_attrs : SUBSET {"template_name", "sub_menu_template"}]
    \cup
    [cls : {"flat"}, mixin : {FALSE}, site_specific : BOOLEAN,
     site : Sites \cup {NONE}, handle : Handles,
     template_name : {<<>>, OptionTemplateName},
     sub_menu_template_name : {<<>>, OptionSubMenuTemplateName},
     class_attrs : SUBSET {"template_name", "sub_menu_template"}]

\* The templates the engine can find: every name, the names that are not
\* those of a site, only the settings' defaults, or none
TemplateDirs(m) ==
    LET listed == Range(GetTemplateNames(m)) \cup Range(GetSubMenuTemplateNames(m))
        custom == {OptionTemplateName, OptionSubMenuTemplateName,
                   ClassAttrValue("template_name"),
                   ClassAttrValue("sub_menu_template")}
        defaults == {LeastSpecificTemplateName(m.cls), DEFAULT_SUB_MENU_TEMPLATE}
    IN  { listed \cup custom,
          {n \in listed : \A site \in Sites : ~Contains(n, Hostname(site))}
              \cup {OptionTemplateName, ClassAttrValue("sub_menu_template")},
          (defaults \ {<<>>}) \cup {ClassAttrValue("template_name"),
                                    OptionSubMenuTemplateName},
          {} }

InitTemplate ==
    /\ tplMenu \in TplMenus
    /\ tplFiles \in TemplateDirs(tplMenu)
    /\ tplOut = NoLookup
    /\ InitPrimeIdle /\ InitPipeIdle /\ InitPagesIdle /\ InitMenuIdle
    /\ InitDbIdle /\ InitLaterIdle

CallGetTemplate ==
    /\ tplOut.call = "none"
    /\ tplOut' = [GetTemplate(tplMenu, tplFiles) EXCEPT !.call = "get_template"]
    /\ UNCHANGED <<tplMenu, tplFiles, notTpl>>

CallGetSubMenuTemplate ==
    /\ tplOut.call = "none"
    /\ tplOut' = [GetSubMenuTemplate(tplMenu, tplFiles)
                    EXCEPT !.call = "get_sub_menu_template"]
    /\ UNCHANGED <<tplMenu, tplFiles, notTpl>>

CallGetTemplateNames ==
    /\ tplOut.call = "none"
    /\ tplOut' = [call |-> "get_template_names", found |-> FALSE, name |-> <<>>,
                  names |-> GetTemplateNames(tplMenu)]
    /\ UNCHANGED <<tplMenu, tplFiles, notTpl>>

CallGetSubMenuTemplateNames ==
    /\ tplOut.call = "none"
    /\ tplOut' = [call |-> "get_sub_menu_template_names", found |-> FALSE,
                  name |-> <<>>, names |-> GetSubMenuTemplateNames(tplMenu)]
    /\ UNCHANGED <<tplMenu, tplFiles, notTpl>>

NextTemplate ==
    \/ CallGetTemplate
    \/ CallGetSubMenuTemplate
    \/ CallGetTemplateNames
    \/ CallGetSubMenuTemplateNames

SpecTemplate == InitTemplate /\ [][NextTemplate]_vars

\* C6: get_template and get_sub_menu_template take the template from the
\* highest-priority source that is specified: the template name given to the
\* tag; otherwise the name set as an attribute of the menu class; otherwise
\* the first template that exists among get_template_names()
\* (get_sub_menu_template_names()). A lower-priority source is never used
\* while a higher-priority one is specified, even when its template is
\* missing.
C6_TemplatePriority ==
    tplOut.call \in {"get_template", "get_sub_menu_template"} =>
        LET sub == tplOut.call = "get_sub_menu_template"
            option == IF sub THEN tplMenu.sub_menu_template_name
                      ELSE tplMenu.template_name
            attr == IF sub THEN "sub_menu_template" ELSE "template_name"
            names == IF sub THEN GetSubMenuTemplateNames(tplMenu)
                     ELSE GetTemplateNames(tplMenu)
        IN  /\ option # <<>> =>
                /\ tplOut.found <=> option \in tplFiles
                /\ tplOut.found => tplOut.name = option
            /\ (option = <<>> /\ attr \in tplMenu.class_attrs) =>
                /\ tplOut.found <=> ClassAttrValue(attr) \in tplFiles
                /\ tplOut.found => tplOut.name = ClassAttrValue(attr)
            /\ (option = <<>> /\ attr \notin tplMenu.class_attrs) =>
                /\ tplOut.found <=> \E i \in DOMAIN names : names[i] \in tplFiles
                /\ tplOut.found =>
                      \E i \in DOMAIN names :
                          /\ names[i] = tplOut.name
                          /\ names[i] \in tplFiles
                          /\ \A j \in 1..(i - 1) : names[j] \notin tplFiles

\* C6 witness: get_template was called with a template name given to the
\* tag, on a class that sets template_name, with both templates and the first
\* listed name in place; the template of the tag's name came back
C6_Witness ==
    /\ tplOut.call = "get_template"
    /\ tplMenu.template_name = OptionTemplateName
    /\ "template_name" \in tplMenu.class_attrs
    /\ ClassAttrValue("template_name") \in tplFiles
    /\ GetTemplateNames(tplMenu)[1] \in tplFiles
    /\ tplOut.found
    /\ tplOut.name = OptionTemplateName

\* C7 as stated: the lists are ordered most specific first. With
\* SITE_SPECIFIC_TEMPLATE_DIRS on and a current site, every name containing
\* the site's hostname precedes every name without it; for flat menus, within
\* the hostname group and within the generic group, every name containing the
\* handle precedes the names without it; the setting's default is the last
\* entry. With the setting off or no current site, no name contains a
\* hostname.
C7_AsStated ==
    tplOut.call \in {"get_template_names", "get_sub_menu_template_names"} =>
        LET names == tplOut.names
            m == tplMenu
            fixed == {"menus", "flat", "main", "section", "children", "sub",
                      "menu", "default", "/", "_", ".html"}
            isFixed(w) == \E f \in fixed : Contains(<<f>>, w)
            hostKnown == m.site_specific /\ m.site # NONE
            hasHost(n) == m.site # NONE /\ Contains(n, Hostname(m.site))
            dflt == IF tplOut.call = "get_template_names"
                    THEN LeastSpecificTemplateName(m.cls)
                    ELSE DEFAULT_SUB_MENU_TEMPLATE
        IN  /\ hostKnown =>
                \A i, j \in DOMAIN names :
                    (hasHost(names[i]) /\ ~hasHost(names[j])) => i < j
            /\ m.cls = "flat" =>
                \A i, j \in DOMAIN names :
                    (/\ hostKnown => (hasHost(names[i]) <=> hasHost(names[j]))
                     /\ Contains(names[i], m.handle)
                     /\ ~Contains(names[j], m.handle)) => i < j
            /\ dflt # <<>> => names[Len(names)] = dflt
            /\ ~hostKnown =>
                \A i \in DOMAIN names :
                    IF m.site # NONE THEN ~hasHost(names[i])
                    ELSE \A site \in Sites :
                            ~isFixed(Hostname(site))
                                => ~Contains(names[i], Hostname(site))

\* C7 (amended): the same, for a hostname and a handle that occur in none of
\* the fixed parts of the names: the literal words of the paths and the
\* settings' default templates.
C7_TemplateNamesOrder ==
    tplOut.call \in {"get_template_names", "get_sub_menu_template_names"} =>
        LET names == tplOut.names
            m == tplMenu
            fixed == {"menus", "flat", "main", "section", "children", "sub",
                      "menu", "default", "/", "_", ".html"}
            isFixed(w) == \E f \in fixed : Contains(<<f>>, w)
            hostKnown == m.site_specific /\ m.site # NONE
            hasHost(n) == m.site # NONE /\ Contains(n, Hostname(m.site))
            dflt == IF tplOut.call = "get_template_names"
                    THEN LeastSpecificTemplateName(m.cls)
                    ELSE DEFAULT_SUB_MENU_TEMPLATE
            hostFree == m.site = NONE \/ ~isFixed(Hostname(m.site))
            handleFree == m.cls # "flat" \/ ~isFixed(m.handle)
        IN  /\ (hostKnown /\ hostFree) =>
                \A i, j \in DOMAIN names :
                    (hasHost(names[i]) /\ ~hasHost(names[j])) => i < j
            /\ (m.cls = "flat" /\ hostFree /\ handleFree) =>
                \A i, j \in DOMAIN names :
                    (/\ hostKnown => (hasHost(names[i]) <=> hasHost(names[j]))
                     /\ Contains(names[i], m.handle)
                     /\ ~Contains(names[j], m.handle)) => i < j
            /\ dflt # <<>> => names[Len(names)] = dflt
            /\ (~hostKnown /\ hostFree) =>
                \A i \in DOMAIN names :
                    IF m.site # NONE THEN ~hasHost(names[i])
                    ELSE \A site \in Sites :
                            ~isFixed(Hostname(site))
                                => ~Contains(names[i], Hostname(site))

\* C7 witness: the names of a flat menu with a handle of its own, for a
\* known site with SITE_SPECIFIC_TEMPLATE_DIRS on: seven names of the site,
\* six generic ones and the default
C7_Witness ==
    /\ tplOut.call = "get_template_names"
    /\ tplMenu.cls = "flat"
    /\ tplMenu.handle = <<"footer">>
    /\ tplMenu.site_specific
    /\ tplMenu.site = 1
    /\ Len(tplOut.names) = 14
    /\ Contains(tplOut.names[4], <<"footer">>)
    /\ ~Contains(tplOut.names[5], <<"footer">>)
    /\ Contains(tplOut.names[7], Hostname(1))
    /\ ~Contains(tplOut.names[8], Hostname(1))

(***************************************************************************)
(* The flat menu and main menu records                                     *)
(***************************************************************************)
\* The most flat menus the table holds
MaxFlatMenus == 3

\* queryset.first(): the row with the lowest pk, or None
First(rows) ==
    IF rows = {} THEN NONE
    ELSE (CHOOSE m \in rows : \A o \in rows : m.pk <= o.pk).pk

\* the pk the table gives the next row
NextPk(rows) == Cardinality(rows) + 1

\* Mutant: the menu of the default site taken even when the site has its own
FlatGetForSite_AlwaysFallBack(handle, site, fall_back_to_default_site_menus, rows, dflt) ==
    LET found == First({m \in rows : m.handle = handle /\ m.site = site})
    IN  IF fall_back_to_default_site_menus /\ site # dflt
        THEN First({m \in rows : m.handle = handle /\ m.site = dflt})
        ELSE found

\* AbstractFlatMenu.get_for_site; dflt is the site with is_default_site
FlatGetForSite(handle, site, fall_back_to_default_site_menus, rows, dflt) ==
    LET found == First({m \in rows : m.handle = handle /\ m.site = site})
    IN  IF found = NONE /\ fall_back_to_default_site_menus /\ site # dflt
        THEN First({m \in rows : m.handle = handle /\ m.site = dflt})
        ELSE found

\* Mutant: clean without the exclusion of the menu's own row
FlatClean_NoExclude(pk, site, handle, rows) ==
    {m \in rows : m.site = site /\ m.handle = handle} # {}

\* AbstractFlatMenu.clean: whether it raises the ValidationError
FlatClean(pk, site, handle, rows) ==
    LET clashes == {m \in rows : m.site = site /\ m.handle = handle}
        others == IF pk # NONE /\ pk # 0
                  THEN {m \in clashes : m.pk # pk}
                  ELSE clashes
    IN  others # {}

\* Mutant: a row created without looking for the one the site has
MainGetOrCreate_AlwaysCreate(site, rows) ==
    [pk |-> NextPk(rows), created |-> TRUE,
     rows |-> rows \cup {[pk |-> NextPk(rows), site |-> site]}]

\* cls.objects.get_or_create(site=site)
MainGetOrCreate(site, rows) ==
    IF \E m \in rows : m.site = site
    THEN [pk |-> (CHOOSE m \in rows : m.site = site).pk, created |-> FALSE,
          rows |-> rows]
    ELSE [pk |-> NextPk(rows), created |-> TRUE,
          rows |-> rows \cup {[pk |-> NextPk(rows), site |-> site]}]

InitRecords ==
    /\ defaultSite \in Sites \cup {NONE}
    /\ flatMenus = {}
    /\ mainMenus = {}
    /\ dbLast = NoDbCall
    /\ mainReturned = <<{}, {}>>
    /\ InitPrimeIdle /\ InitPipeIdle /\ InitPagesIdle /\ InitMenuIdle
    /\ InitTplIdle /\ InitLaterIdle

\* A new flat menu put through clean and, when clean passes, saved
CreateFlatMenu ==
    \E site \in Sites, handle \in Handles :
        /\ Cardinality(flatMenus) < MaxFlatMenus
        /\ LET raised == FlatClean(NONE, site, handle, flatMenus)
               pk == NextPk(flatMenus)
           IN  /\ flatMenus' =
                     IF raised THEN flatMenus
                     ELSE flatMenus \cup
                            {[pk |-> pk, site |-> site, handle |-> handle]}
               /\ dbLast' = [NoDbCall EXCEPT !.op = "create",
                                !.pk = IF raised THEN NONE ELSE pk,
                                !.site = site, !.handle = handle,
                                !.raised = raised]
        /\ UNCHANGED <<defaultSite, mainMenus, mainReturned, notDb>>

\* A stored flat menu edited (or left as it is), put through clean and, when
\* clean passes, saved
EditFlatMenu ==
    \E old \in flatMenus, site \in Sites, handle \in Handles :
        /\ LET raised == FlatClean(old.pk, site, handle, flatMenus)
           IN  /\ flatMenus' =
                     IF raised THEN flatMenus
                     ELSE (flatMenus \ {old}) \cup
                            {[pk |-> old.pk, site |-> site, handle |-> handle]}
               /\ dbLast' = [NoDbCall EXCEPT !.op = "edit", !.pk = old.pk,
                                !.site = site, !.handle = handle,
                                !.raised = raised]
        /\ UNCHANGED <<defaultSite, mainMenus, mainReturned, notDb>>

\* flat_menu: FLAT_MENU_MODEL_CLASS.get_for_site(handle, site, fall_back...)
CallFlatGetForSite ==
    \E site \in Sites, handle \in Handles, fbtdsm \in BOOLEAN :
        /\ dbLast' = [NoDbCall EXCEPT !.op = "flat_get_for_site",
                         !.site = site, !.handle = handle, !.fallback = fbtdsm,
                         !.result = FlatGetForSite(handle, site, fbtdsm,
                                                   flatMenus, defaultSite)]
        /\ UNCHANGED <<defaultSite, flatMenus, mainMenus, mainReturned, notDb>>

\* AbstractMainMenu.get_for_site
CallMainGetForSite ==
    \E site \in Sites :
        LET got == MainGetOrCreate(site, mainMenus) IN
        /\ mainMenus' = got.rows
        /\ mainReturned' = [mainReturned EXCEPT ![site] = @ \cup {got.pk}]
        /\ dbLast' = [NoDbCall EXCEPT !.op = "main_get_for_site",
                         !.site = site, !.result = got.pk,
                         !.created = got.created]
        /\ UNCHANGED <<defaultSite, flatMenus, notDb>>

NextRecords ==
    \/ CreateFlatMenu
    \/ EditFlatMenu
    \/ CallFlatGetForSite
    \/ CallMainGetForSite

SpecRecords == InitRecords /\ [][NextRecords]_vars

\* C8: get_for_site returns the flat menu with the handle that belongs to the
\* site whenever there is one; when there is none it returns the default
\* site's menu with the handle only if fall_back_to_default_site_menus is
\* true and the site is not the default site (None if the default site has
\* none either); in every other case it returns None.
C8_GetForSite ==
    dbLast.op = "flat_get_for_site" =>
        LET own == {m \in flatMenus :
                        m.site = dbLast.site /\ m.handle = dbLast.handle}
            dflt == {m \in flatMenus :
                        m.site = defaultSite /\ m.handle = dbLast.handle}
        IN  /\ own # {} => \E m \in own : dbLast.result = m.pk
            /\ (own = {} /\ dbLast.fallback /\ dbLast.site # defaultSite) =>
                  IF dflt # {} THEN \E m \in dflt : dbLast.result = m.pk
                  ELSE dbLast.result = NONE
            /\ (own = {} /\ ~(dbLast.fallback /\ dbLast.site # defaultSite)) =>
                  dbLast.result = NONE

\* C8 witness: the site has no menu with the handle and is not the default
\* site, which has one: with the fall back it is the one returned
C8_Witness ==
    /\ dbLast.op = "flat_get_for_site"
    /\ dbLast.fallback
    /\ dbLast.site # defaultSite
    /\ ~\E m \in flatMenus : m.site = dbLast.site /\ m.handle = dbLast.handle
    /\ \E m \in flatMenus :
          /\ m.site = defaultSite /\ m.handle = dbLast.handle
          /\ dbLast.result = m.pk
    /\ \E m \in flatMenus : m.site = dbLast.site

\* C9: clean raises exactly when another flat menu, with a different pk, has
\* the same site and handle; validating a stored menu against itself never
\* fails; and no two flat menus share a (site, handle) pair after any creates
\* and edits that pass clean before they save.
C9_CleanUnique ==
    /\ dbLast.op \in {"create", "edit"} =>
          /\ dbLast.raised <=>
                \E m \in flatMenus :
                    /\ m.site = dbLast.site /\ m.handle = dbLast.handle
                    /\ m.pk # dbLast.pk
          /\ ~dbLast.raised =>
                [pk |-> dbLast.pk, site |-> dbLast.site,
                 handle |-> dbLast.handle] \in flatMenus
          /\ (dbLast.op = "edit" /\ dbLast.raised) =>
                [pk |-> dbLast.pk, site |-> dbLast.site,
                 handle |-> dbLast.handle] \notin flatMenus
    /\ \A m, o \in flatMenus :
          (m.site = o.site /\ m.handle = o.handle) => m = o

\* C9 witness: an edit that would give a menu the site and handle of another
\* was refused, with three menus stored
C9_Witness ==
    /\ dbLast.op = "edit"
    /\ dbLast.raised
    /\ Cardinality(flatMenus) = 3
    /\ \E m \in flatMenus :
          /\ m.site = dbLast.site /\ m.handle = dbLast.handle
          /\ m.pk # dbLast.pk

\* C10: get_for_site(site) always returns a main menu of the site, creating
\* one only when the site has none; every site it was called for has exactly
\* one main menu, and every call for the site returned that record.
C10_MainMenuPerSite ==
    /\ \A m, o \in mainMenus : m.site = o.site => m = o
    /\ \A site \in Sites :
          mainReturned[site] # {} =>
              /\ Cardinality({m \in mainMenus : m.site = site}) = 1
              /\ mainReturned[site] = {m.pk : m \in {o \in mainMenus : o.site = site}}
    /\ \A site \in Sites :
          mainReturned[site] = {} => ~\E m \in mainMenus : m.site = site
    /\ dbLast.op = "main_get_for_site" =>
          /\ [pk |-> dbLast.result, site |-> dbLast.site] \in mainMenus
          /\ dbLast.created => dbLast.result = Cardinality(mainMenus)

\* C10 witness: both sites have their main menu and the last call, for a site
\* that had one, returned it without creating another
C10_Witness ==
    /\ dbLast.op = "main_get_for_site"
    /\ ~dbLast.created
    /\ Cardinality(mainMenus) = 2
    /\ mainReturned[dbLast.site] = {dbLast.result}

(***************************************************************************)
(* The menu tags and the helpers of utils.misc they start with             *)
(***************************************************************************)

\* Values as the template engine hands them to a tag: None, an int, a str
\* (v is the number its text spells, 0 when it spells none), a Page, a
\* MenuItem or a Site
PyNone == [t |-> "NoneType", v |-> 0]
IntVal(n) == [t |-> "int", v |-> n]
StrVal(n) == [t |-> "str", v |-> n]
PageVal(p) == [t |-> "Page", v |-> p]
MenuItemVal(pk) == [t |-> "MenuItem", v |-> pk]
SiteVal(site) == [t |-> "Site", v |-> site]

\* The model's plain value of a Site or Page argument
Unwrap(x) == IF x = PyNone THEN NONE ELSE x.v

\* Mutant: max_levels checked against 0..5
ValidateSuppliedValues_ZeroAllowed(max_levels, use_specific, parent_page, menuitem_or_page) ==
    \/ max_levels # PyNone /\ ~(max_levels.t = "int" /\ max_levels.v \in 0..5)
    \/ use_specific # PyNone /\ ~(use_specific.t = "int" /\ use_specific.v \in 0..3)
    \/ parent_page # PyNone /\ parent_page.t # "Page"
    \/ menuitem_or_page # PyNone /\ menuitem_or_page.t \notin {"Page", "MenuItem"}

\* validate_supplied_values: whether it raises ValueError
ValidateSuppliedValues(max_levels, use_specific, parent_page, menuitem_or_page) ==
    \/ max_levels # PyNone /\ ~(max_levels.t = "int" /\ max_levels.v \in {1, 2, 3, 4, 5})
    \/ use_specific # PyNone /\ ~(use_specific.t = "int" /\ use_specific.v \in {0, 1, 2, 3})
    \/ parent_page # PyNone /\ parent_page.t # "Page"
    \/ menuitem_or_page # PyNone /\ menuitem_or_page.t \notin {"Page", "MenuItem"}

\* get_site_from_request: the value returned and the site lookups made
GetSiteFromRequest(request_site, fallback_to_default, dflt) ==
    IF request_site # PyNone
    THEN [site |-> request_site, lookups |-> <<>>]
    ELSE IF fallback_to_default
         THEN [site |-> IF dflt = NONE THEN PyNone ELSE SiteVal(dflt),
               lookups |-> <<"Site.objects.filter(is_default_site=True)">>]
         ELSE [site |-> PyNone, lookups |-> <<>>]

\* What a call comes to: the steps taken, the exception raised and the output
\* ("rendered" is whatever render_to_template gives)
Outcome(steps, raised, out) == [steps |-> steps, raised |-> raised, out |-> out]

\* AbstractFlatMenu.get_for_site: whether `not site.is_default_site` is
\* evaluated on None
FlatGetForSiteRaises(handle, site, fall_back_to_default_site_menus, rows) ==
    /\ First({m \in rows : m.handle = handle /\ m.site = site}) = NONE
    /\ fall_back_to_default_site_menus
    /\ site = NONE

\* main_menu
TagMainMenu(a, ctx, dflt) ==
    IF ValidateSuppliedValues(a.max_levels, a.use_specific, PyNone, PyNone)
    THEN Outcome(<<"validate_supplied_values">>, "ValueError", "unset")
    ELSE LET site == Unwrap(GetSiteFromRequest(ctx.request_site, TRUE, dflt).site)
         IN  IF site = NONE
             THEN Outcome(<<"validate_supplied_values", "get_site_from_request",
                            "get_for_site">>, "IntegrityError", "unset")
             ELSE Outcome(<<"validate_supplied_values", "get_site_from_request",
                            "get_for_site", "render_init", "render_to_template">>,
                          "none", "rendered")

\* flat_menu
TagFlatMenu(a, ctx, dflt, rows) ==
    IF ValidateSuppliedValues(a.max_levels, a.use_specific, PyNone, PyNone)
    THEN Outcome(<<"validate_supplied_values">>, "ValueError", "unset")
    ELSE LET site == Unwrap(GetSiteFromRequest(ctx.request_site, TRUE, dflt).site)
         IN  IF FlatGetForSiteRaises(a.handle, site, a.fall_back_to_default_site_menus, rows)
             THEN Outcome(<<"validate_supplied_values", "get_site_from_request",
                            "get_for_site">>, "AttributeError", "unset")
             ELSE IF FlatGetForSite(a.handle, site, a.fall_back_to_default_site_menus,
                                    rows, dflt) = NONE
                  THEN Outcome(<<"validate_supplied_values", "get_site_from_request",
                                 "get_for_site">>, "none", "")
                  ELSE Outcome(<<"validate_supplied_values", "get_site_from_request",
                                 "get_for_site", "render_init", "render_to_template">>,
                               "none", "rendered")

\* section_menu and SectionMenu.render
TagSectionMenu(a, ctx) ==
    IF ValidateSuppliedValues(a.max_levels, a.use_specific, PyNone, PyNone)
    THEN Outcome(<<"validate_supplied_values">>, "ValueError", "unset")
    ELSE IF ctx.section_root = NONE
         THEN Outcome(<<"validate_supplied_values", "render_init">>, "none", "")
         ELSE Outcome(<<"validate_supplied_values", "render_init",
                        "render_to_template">>, "none", "rendered")

\* children_menu
TagChildrenMenu(a, ctx) ==
    IF ValidateSuppliedValues(a.max_levels, a.use_specific, a.parent_page, PyNone)
    THEN Outcome(<<"validate_supplied_values">>, "ValueError", "unset")
    ELSE LET parent_page == IF a.parent_page = PyNone THEN ctx.self
                            ELSE Unwrap(a.parent_page)
         IN  IF parent_page = NONE
             THEN Outcome(<<"validate_supplied_values">>, "none", "")
             ELSE Outcome(<<"validate_supplied_values", "render_init",
                            "render_to_template">>, "none", "rendered")

\* sub_menu: menuitem_or_page.link_page fails on None, and SubMenu.render is
\* handed one positional argument more than Menu.render takes
TagSubMenu(a, ctx) ==
    IF ValidateSuppliedValues(PyNone, a.use_specific, PyNone, a.menuitem_or_page)
    THEN Outcome(<<"validate_supplied_values">>, "ValueError", "unset")
    ELSE IF a.menuitem_or_page = PyNone
         THEN Outcome(<<"validate_supplied_values">>, "AttributeError", "unset")
         ELSE Outcome(<<"validate_supplied_values", "render">>, "TypeError", "unset")

\* The values templates pass for each argument
MaxLevelsArgs == {PyNone, IntVal(0), IntVal(1), IntVal(5), IntVal(6), StrVal(2)}
UseSpecificArgs == {PyNone, IntVal(0), IntVal(3), IntVal(4), StrVal(1)}
PageArgs == {PyNone, PageVal(3), MenuItemVal(1), StrVal(0)}
RequestSites == {PyNone} \cup {SiteVal(site) : site \in Sites}

\* The arguments and context of a call not yet made
NoArgs ==
    [max_levels |-> PyNone, use_specific |-> PyNone, parent_page |-> PyNone,
     menuitem_or_page |-> PyNone, handle |-> <<>>,
     fall_back_to_default_site_menus |-> FALSE, fallback_to_default |-> TRUE]

NoContext == [request_site |-> PyNone, self |-> NONE, section_root |-> NONE]

PendingCall(call, a, ctx) ==
    [call |-> call, done |-> FALSE, a |-> a, ctx |-> ctx,
     steps |-> <<>>, raised |-> "none", out |-> "unset", site |-> PyNone]

\* The calls a template (or a test, for the two helpers) can make
PendingCalls ==
    {PendingCall("validate_supplied_values",
                 [NoArgs EXCEPT !.max_levels = ml, !.use_specific = us,
                                !.parent_page = pp, !.menuitem_or_page = mp],
                 NoContext) :
        ml \in MaxLevelsArgs, us \in UseSpecificArgs, pp \in PageArgs, mp \in PageArgs}
    \cup
    {PendingCall("get_site_from_request",
                 [NoArgs EXCEPT !.fallback_to_default = fb],
                 [NoContext EXCEPT !.request_site = rs]) :
        fb \in BOOLEAN, rs \in RequestSites \cup {StrVal(0)}}
    \cup
    {PendingCall("main_menu",
                 [NoArgs EXCEPT !.max_levels = ml, !.use_specific = us],
                 [NoContext EXCEPT !.request_site = rs]) :
        ml \in MaxLevelsArgs, us \in UseSpecificArgs, rs \in RequestSites}
    \cup
    {PendingCall("flat_menu",
                 [NoArgs EXCEPT !.max_levels = ml, !.use_specific = us,
                                !.handle = h,
                                !.fall_back_to_default_site_menus = fb],
                 [NoContext EXCEPT !.request_site = rs]) :
        ml \in MaxLevelsArgs, us \in UseSpecificArgs, h \in Handles,
        fb \in BOOLEAN, rs \in RequestSites}
    \cup
    {PendingCall("section_menu",
                 [NoArgs EXCEPT !.max_levels = ml, !.use_specific = us],
                 [NoContext EXCEPT !.request_site = rs, !.section_root = sr]) :
        ml \in MaxLevelsArgs, us \in UseSpecificArgs, rs \in RequestSites,
        sr \in {NONE, 3}}
    \cup
    {PendingCall("children_menu",
                 [NoArgs EXCEPT !.max_levels = ml, !.use_specific = us,
                                !.parent_page = pp],
                 [NoContext EXCEPT !.self = cp]) :
        ml \in MaxLevelsArgs, us \in UseSpecificArgs, pp \in PageArgs,
        cp \in {NONE, 5}}
    \cup
    {PendingCall("sub_menu",
                 [NoArgs EXCEPT !.use_specific = us, !.menuitem_or_page = mp],
                 NoContext) :
        us \in UseSpecificArgs, mp \in PageArgs}

\* The flat menu tables a call can find
FlatTables ==
    SUBSET {[pk |-> 1, site |-> 1, handle |-> <<"footer">>],
            [pk |-> 2, site |-> 2, handle |-> <<"footer">>]}

InitTags ==
    /\ tagRun \in PendingCalls
    /\ defaultSite \in Sites \cup {NONE}
    /\ flatMenus \in FlatTables
    /\ mainMenus = {}
    /\ dbLast = NoDbCall
    /\ mainReturned = <<{}, {}>>
    /\ InitPrimeIdle /\ InitPipeIdle /\ InitPagesIdle /\ InitMenuIdle
    /\ InitTplIdle /\ InitRegIdle /\ InitUrlIdle /\ InitLvlIdle /\ InitMoreIdle

Finish(o) ==
    tagRun' = [tagRun EXCEPT !.done = TRUE, !.steps = o.steps,
                             !.raised = o.raised, !.out = o.out]

\* validate_supplied_values called on its own
CallValidateSuppliedValues ==
    /\ tagRun.call = "validate_supplied_values" /\ ~tagRun.done
    /\ Finish(Outcome(<<"validate_supplied_values">>,
                      IF ValidateSuppliedValues(tagRun.a.max_levels,
                                                tagRun.a.use_specific,
                                                tagRun.a.parent_page,
                                                tagRun.a.menuitem_or_page)
                      THEN "ValueError" ELSE "none",
                      "unset"))
    /\ UNCHANGED <<vDb, notTags>>

\* get_site_from_request called on its own
CallGetSiteFromRequest ==
    /\ tagRun.call = "get_site_from_request" /\ ~tagRun.done
    /\ LET got == GetSiteFromRequest(tagRun.ctx.request_site,
                                     tagRun.a.fallback_to_default, defaultSite)
       IN  tagRun' = [tagRun EXCEPT !.done = TRUE, !.steps = got.lookups,
                                    !.site = got.site]
    /\ UNCHANGED <<vDb, notTags>>

\* {% main_menu %}
CallMainMenu ==
    /\ tagRun.call = "main_menu" /\ ~tagRun.done
    /\ LET o == TagMainMenu(tagRun.a, tagRun.ctx, defaultSite)
           site == Unwrap(GetSiteFromRequest(tagRun.ctx.request_site, TRUE,
                                             defaultSite).site)
       IN  /\ Finish(o)
           /\ mainMenus' = IF o.raised = "none"
                           THEN MainGetOrCreate(site, mainMenus).rows
                           ELSE mainMenus
    /\ UNCHANGED <<defaultSite, flatMenus, dbLast, mainReturned, notTags>>

\* {% flat_menu handle %}
CallFlatMenu ==
    /\ tagRun.call = "flat_menu" /\ ~tagRun.done
    /\ Finish(TagFlatMenu(tagRun.a, tagRun.ctx, defaultSite, flatMenus))
    /\ UNCHANGED <<vDb, notTags>>

\* {% section_menu %}
CallSectionMenu ==
    /\ tagRun.call = "section_menu" /\ ~tagRun.done
    /\ Finish(TagSectionMenu(tagRun.a, tagRun.ctx))
    /\ UNCHANGED <<vDb, notTags>>

\* {% children_menu %}
CallChildrenMenu ==
    /\ tagRun.call = "children_menu" /\ ~tagRun.done
    /\ Finish(TagChildrenMenu(tagRun.a, tagRun.ctx))
    /\ UNCHANGED <<vDb, notTags>>

\* {% sub_menu item %}
CallSubMenu ==
    /\ tagRun.call = "sub_menu" /\ ~tagRun.done
    /\ Finish(TagSubMenu(tagRun.a, tagRun.ctx))
    /\ UNCHANGED <<vDb, notTags>>

NextTags ==
    \/ CallValidateSuppliedValues
    \/ CallGetSiteFromRequest
    \/ CallMainMenu
    \/ CallFlatMenu
    \/ CallSectionMenu
    \/ CallChildrenMenu
    \/ CallSubMenu

SpecTags == InitTags /\ [][NextTags]_vars

MenuTags == {"main_menu", "flat_menu", "section_menu", "children_menu", "sub_menu"}

\* C11 (as stated): a tag with nothing to render from gives the empty string,
\* raises nothing and renders no template: flat_menu when no flat menu of the
\* request's site, nor (with the fallback on) of the default site, has the
\* handle; section_menu when the context has no section root; children_menu
\* when there is neither a parent_page nor a current page
C11_AsStated ==
    LET a == tagRun.a
        ctx == tagRun.ctx
        valid(x, S) == x = PyNone \/ (x.t = "int" /\ x.v \in S)
        site == IF ctx.request_site # PyNone THEN ctx.request_site.v
                ELSE defaultSite
        noMenu == /\ ~\E m \in flatMenus : m.handle = a.handle /\ m.site = site
                  /\ a.fall_back_to_default_site_menus =>
                        ~\E m \in flatMenus :
                            m.handle = a.handle /\ m.site = defaultSite
        nothing == \/ tagRun.call = "flat_menu" /\ noMenu
                   \/ tagRun.call = "section_menu" /\ ctx.section_root = NONE
                   \/ /\ tagRun.call = "children_menu"
                      /\ a.parent_page = PyNone /\ ctx.self = NONE
    IN  (/\ tagRun.done
         /\ valid(a.max_levels, 1..5) /\ valid(a.use_specific, 0..3)
         /\ nothing)
        => /\ tagRun.out = ""
           /\ tagRun.raised = "none"
           /\ \A i \in 1..Len(tagRun.steps) : tagRun.steps[i] # "render_to_template"

\* C12: validate_supplied_values raises ValueError exactly when max_levels is
\* given and is not one of 1..5, or use_specific is given and is not one of
\* 0..3, or parent_page is given and is not a Page, or menuitem_or_page is
\* given and is neither a Page nor a MenuItem; and each of the five tags makes
\* this check its first step, stopping there when it fails
C12_ValidateSuppliedValues ==
    LET a == tagRun.a
        badInt(x, S) == x # PyNone /\ ~(x.t = "int" /\ x.v \in S)
        badMaxLevels == badInt(a.max_levels, 1..5)
        badUseSpecific == badInt(a.use_specific, 0..3)
        badParentPage == a.parent_page # PyNone /\ a.parent_page.t # "Page"
        badItem == /\ a.menuitem_or_page # PyNone
                   /\ a.menuitem_or_page.t # "Page"
                   /\ a.menuitem_or_page.t # "MenuItem"
        rejected == tagRun.raised = "ValueError"
    IN  tagRun.done =>
          /\ tagRun.call = "validate_supplied_values" =>
                (rejected <=>
                    (badMaxLevels \/ badUseSpecific \/ badParentPage \/ badItem))
          /\ tagRun.call \in MenuTags =>
                /\ tagRun.steps # <<>>
                /\ tagRun.steps[1] = "validate_supplied_values"
                /\ rejected => Len(tagRun.steps) = 1
          /\ tagRun.call \in {"main_menu", "flat_menu", "section_menu"} =>
                (rejected <=> (badMaxLevels \/ badUseSpecific))
          /\ tagRun.call = "children_menu" =>
                (rejected <=> (badMaxLevels \/ badUseSpecific \/ badParentPage))
          /\ tagRun.call = "sub_menu" =>
                (rejected <=> (badUseSpecific \/ badItem))

\* Witness for C12: a flat_menu call rejected for its max_levels before any
\* lookup, with use_specific left as None
C12_Witness ==
    /\ tagRun.done /\ tagRun.call = "flat_menu"
    /\ tagRun.a.max_levels = IntVal(0) /\ tagRun.a.use_specific = PyNone
    /\ tagRun.raised = "ValueError"
    /\ tagRun.steps = <<"validate_supplied_values">>

\* C14 (as stated): get_site_from_request returns request.site without a
\* lookup when it is a Site; otherwise it looks the site up for the request
\* with Site.find_for_request and returns the site found, or None
C14_AsStated ==
    (tagRun.done /\ tagRun.call = "get_site_from_request") =>
        IF tagRun.ctx.request_site.t = "Site"
        THEN tagRun.site = tagRun.ctx.request_site /\ tagRun.steps = <<>>
        ELSE /\ tagRun.steps = <<"Site.find_for_request">>
             /\ tagRun.site.t \in {"Site", "NoneType"}

(***************************************************************************)
(* The current page and the section root derived from a URL (api/v1)       *)
(***************************************************************************)

\* The most path components a URL has
MaxPathLen == 3

\* The slug of each page below the root page of the site (page 2)
Slug == [p \in Pages \ {1, 2} |->
            CASE p = 3 -> "a" [] p = 4 -> "b" [] p = 5 -> "c"
              [] p = 6 -> "d" [] p = 7 -> "c" [] p = 8 -> "c"]

\* The slugs that lead from the site's root page to a page
RECURSIVE SlugPath(_)
SlugPath(p) ==
    IF Depth(p) <= 2 THEN <<>>
    ELSE LET parent == CHOOSE q \in Pages : PagePath[q] = ParentPath(PagePath[p])
         IN  Append(SlugPath(parent), Slug[p])

\* The components URLs are made of
UrlSlugs == {"a", "c", "x"}

\* 'http://example.com/<path>/'
Urls ==
    {[scheme |-> "http:", host |-> "example.com", path |-> path] :
        path \in UNION {[1..n -> UrlSlugs] : n \in 0..MaxPathLen}}

\* [pc for pc in url.split('/') if pc]
UrlSplit(url) == <<url.scheme, url.host>> \o url.path

\* [pc for pc in request.path.split('/') if pc], the request being the dummy
\* request made for the URL
RequestPathSplit(url) == url.path

\* site.root_page.specific.route(request, path_components)[0]: the page the
\* slugs lead to when it is live, NONE for Http404
Route(path_components, liveS) ==
    LET hit == {p \in Pages \ {1} : SlugPath(p) = path_components /\ p \in liveS}
    IN  IF hit = {} THEN NONE ELSE CHOOSE p \in hit : TRUE

\* path_components.pop()
Pop(path_components) == SubSeq(path_components, 1, Len(path_components) - 1)

\* The values SECTION_ROOT_DEPTH is set to
SectionRootDepths == {2, 3, 4, 5}

\* page.get_ancestors().get(depth__exact=depth)
AncestorAt(page, depth) ==
    CHOOSE q \in AncestorsOf(page) : Depth(q) = depth

\* Mutant: a match of a later attempt recorded as the current page too
RecordMatch_AlwaysCurrent(d, page) == [d EXCEPT !.best_match = page, !.current_page = page]

\* The body of the try block of the forms and the serializer: the page found
\* is the current page on the first run and the best match afterwards
RecordMatch(d, page) == IF d.first_run THEN [d EXCEPT !.best_match = page, !.current_page = page] ELSE [d EXCEPT !.best_match = page, !.best_match_page = page]

\* The body of the try block of the view, which also collects the ancestor
\* ids and takes the current page out of them
ViewRecordMatch(d, page) ==
    LET ids == {q \in Pages : /\ StartsWith(PagePath[page], PagePath[q])
                              /\ Depth(q) >= d.section_root_depth}
    IN  IF d.first_run
        THEN IF page \in ids
             THEN [d EXCEPT !.best_match = page, !.best_match_page = page,
                            !.current_page = page, !.ancestor_ids = ids \ {page}]
             ELSE [d EXCEPT !.best_match = page, !.best_match_page = page,
                            !.current_page = page, !.ancestor_ids = ids,
                            !.raised = "KeyError", !.pc = "done"]
        ELSE [d EXCEPT !.best_match = page, !.best_match_page = page,
                       !.ancestor_ids = ids]

\* Mutant: a deeper page taken as its own section root
FormSectionRoot_NoAncestor(page, depth) == IF page = NONE \/ Depth(page) < depth THEN [page |-> NONE, error |-> TRUE] ELSE [page |-> page, error |-> FALSE]

\* SectionMenuGeneratorArgumentForm.derive_section_root_page
FormSectionRoot(page, depth) == IF page = NONE \/ Depth(page) < depth THEN [page |-> NONE, error |-> TRUE] ELSE IF Depth(page) > depth THEN [page |-> AncestorAt(page, depth), error |-> FALSE] ELSE [page |-> page, error |-> FALSE]

\* MenuRenderView.derive_page_data_from_arg_data: "derive section root"
ViewSectionRoot(page, depth) ==
    IF page # NONE /\ Depth(page) = depth THEN page
    ELSE IF page # NONE /\ Depth(page) > depth
         THEN AncestorAt(page, depth)
         ELSE NONE

\* page = current_page or best_match_page
PageOf(d) == IF d.current_page # NONE THEN d.current_page ELSE d.best_match_page

\* page.get_ancestors(inclusive=...).filter(depth__gte=SECTION_ROOT_DEPTH)
\*     .values_list('id', flat=True)
AncestorIdsFrom(page, inclusive, depth) ==
    {q \in AncestorsOf(page) \cup (IF inclusive THEN {page} ELSE {}) :
        Depth(q) >= depth}

\* Mutant: the page itself counted among its ancestors in every case
FormDeriveAncestorPageIds_Inclusive(d) == IF PageOf(d) # NONE THEN AncestorIdsFrom(PageOf(d), TRUE, d.section_root_depth) ELSE {}

\* BaseMenuGeneratorArgumentForm.derive_ancestor_page_ids
FormDeriveAncestorPageIds(d) == IF PageOf(d) # NONE THEN AncestorIdsFrom(PageOf(d), d.current_page = NONE, d.section_root_depth) ELSE {}

\* RenderViewArgumentSerializer.derive_ancestor_page_ids
SerializerDeriveAncestorPageIds(d) ==
    IF PageOf(d) # NONE
    THEN AncestorIdsFrom(PageOf(d), d.best_match_page # NONE, d.section_root_depth)
    ELSE {}

\* if data['apply_active_classes']: self.derive_ancestor_page_ids(data)
WithAncestorPageIds(d) ==
    IF ~d.apply_active_classes THEN d
    ELSE [d EXCEPT !.ancestor_ids =
              IF d.impl = "form" THEN FormDeriveAncestorPageIds(d)
              ELSE SerializerDeriveAncestorPageIds(d)]

\* A derivation about to start
PendingDerivation(impl, url, has_url, site, current_page, aac, force, accept, depth) ==
    [pc |-> "start", impl |-> impl, url |-> url, has_url |-> has_url,
     site |-> site, apply_active_classes |-> aac, force_derivation |-> force,
     accept_best_match |-> accept, section_root_depth |-> depth,
     path_components |-> <<>>, first_run |-> TRUE, best_match |-> NONE,
     broke |-> FALSE, entered |-> FALSE, attempts |-> <<>>,
     current_page |-> current_page, best_match_page |-> NONE,
     section_root_page |-> NONE, ancestor_ids |-> {}, errors |-> {},
     raised |-> "none"]

NoUrl == [scheme |-> "", host |-> "", path |-> <<>>]

\* The derivations the forms, the serializer and the view are asked for
PendingDerivations ==
    {PendingDerivation("form", url, TRUE, site, cp, aac, force, accept, depth) :
        url \in Urls, site \in {1, NONE}, cp \in {NONE, 2, 5}, aac \in BOOLEAN,
        force \in BOOLEAN, accept \in BOOLEAN, depth \in SectionRootDepths}
    \cup
    {PendingDerivation("form", NoUrl, FALSE, 1, cp, TRUE, force, TRUE, depth) :
        cp \in {NONE, 2, 5}, force \in BOOLEAN, depth \in SectionRootDepths}
    \cup
    {PendingDerivation("serializer", url, TRUE, 1, NONE, aac, force, TRUE,
                       SECTION_ROOT_DEPTH) :
        url \in Urls, aac \in BOOLEAN, force \in BOOLEAN}
    \cup
    {PendingDerivation("serializer", NoUrl, FALSE, 1, cp, aac, FALSE, TRUE,
                       SECTION_ROOT_DEPTH) :
        cp \in {2, 5}, aac \in BOOLEAN}
    \cup
    {PendingDerivation("view", url, TRUE, 1, NONE, aac, FALSE, TRUE, depth) :
        url \in Urls, aac \in BOOLEAN, depth \in SectionRootDepths}
    \cup
    {PendingDerivation("view", NoUrl, FALSE, 1, NONE, TRUE, FALSE, TRUE,
                       SECTION_ROOT_DEPTH)}

InitDerive ==
    /\ drv \in PendingDerivations
    /\ InitPrimeIdle /\ InitPipeIdle /\ InitPagesIdle /\ InitMenuIdle
    /\ InitTplIdle /\ InitDbIdle /\ InitRegIdle /\ InitTagsIdle /\ InitLvlIdle /\ InitMoreIdle

\* The locals of the loop set up
EnterLoop(d, path_components) ==
    [d EXCEPT !.pc = "loop", !.entered = TRUE,
              !.path_components = path_components,
              !.first_run = TRUE, !.best_match = NONE]

\* clean / to_internal_value / derive_page_data_from_arg_data up to the loop:
\* the early returns of derive_current_page and the split of the URL; when
\* there is no loop to run, the forms and the serializer go on to the
\* ancestor page ids
DeriveStart ==
    /\ drv.pc = "start"
    /\ drv' =
         CASE drv.impl = "form" ->
                IF drv.current_page # NONE
                THEN WithAncestorPageIds([drv EXCEPT !.pc = "after"])
                ELSE IF ~drv.force_derivation /\ ~drv.apply_active_classes
                THEN [drv EXCEPT !.pc = "after"]
                ELSE IF ~drv.has_url \/ drv.site = NONE
                THEN WithAncestorPageIds(
                         [drv EXCEPT !.pc = "after",
                                     !.errors = IF drv.force_derivation
                                                THEN {"current_page"} ELSE {}])
                ELSE EnterLoop(drv, RequestPathSplit(drv.url))
           [] drv.impl = "serializer" ->
                IF drv.current_page # NONE
                THEN WithAncestorPageIds([drv EXCEPT !.pc = "done"])
                ELSE IF ~drv.force_derivation /\ ~drv.apply_active_classes
                THEN [drv EXCEPT !.pc = "done"]
                ELSE EnterLoop(drv, RequestPathSplit(drv.url))
           [] drv.impl = "view" ->
                IF ~drv.has_url \/ ~drv.apply_active_classes
                THEN [drv EXCEPT !.pc = "done"]
                ELSE EnterLoop(drv, UrlSplit(drv.url))
    /\ UNCHANGED notUrl

\* while path_components and best_match is None
LoopCondition(d) ==
    d.path_components # <<>> /\ d.best_match = NONE /\ ~d.broke

\* One turn of the loop: a routing attempt and what follows it
RouteAttempt ==
    /\ drv.pc = "loop"
    /\ LoopCondition(drv)
    /\ LET page == Route(drv.path_components, live)
           d == [drv EXCEPT !.attempts =
                     Append(@, [path_components |-> drv.path_components,
                                page |-> page])]
       IN  drv' =
             IF page # NONE
             THEN IF drv.impl = "view"
                  THEN [ViewRecordMatch(d, page) EXCEPT !.first_run = FALSE]
                  ELSE [RecordMatch(d, page) EXCEPT !.first_run = FALSE]
             ELSE IF drv.impl = "form" /\ ~drv.accept_best_match
                  THEN [d EXCEPT !.broke = TRUE]
                  ELSE [d EXCEPT !.path_components = Pop(@),
                                 !.first_run = FALSE]
    /\ UNCHANGED notUrl

\* The loop left: the error of the forms when only a full match will do, the
\* ancestor page ids of the forms and the serializer, the section root of the
\* view
LoopExit ==
    /\ drv.pc = "loop"
    /\ ~LoopCondition(drv)
    /\ drv' =
         CASE drv.impl = "form" ->
                WithAncestorPageIds(
                    [drv EXCEPT !.pc = "after",
                                !.errors = IF /\ ~drv.accept_best_match
                                              /\ drv.current_page = NONE
                                           THEN @ \cup {"current_page"} ELSE @])
           [] drv.impl = "serializer" ->
                WithAncestorPageIds([drv EXCEPT !.pc = "done"])
           [] drv.impl = "view" ->
                [drv EXCEPT !.pc = "done",
                            !.section_root_page =
                                ViewSectionRoot(PageOf(drv),
                                                drv.section_root_depth)]
    /\ UNCHANGED notUrl

\* SectionMenuGeneratorArgumentForm.clean: derive_section_root_page(data)
FormDeriveSectionRootPage ==
    /\ drv.pc = "after"
    /\ LET got == FormSectionRoot(PageOf(drv), drv.section_root_depth)
       IN  drv' = [drv EXCEPT !.pc = "done",
                              !.section_root_page = got.page,
                              !.errors = IF got.error
                                         THEN @ \cup {"section_root_page"}
                                         ELSE @]
    /\ UNCHANGED notUrl

NextDerive ==
    \/ DeriveStart
    \/ RouteAttempt
    \/ LoopExit
    \/ FormDeriveSectionRootPage

SpecDerive == InitDerive /\ [][NextDerive]_vars

\* The loop of a derivation has been left without an exception
Derived == drv.pc \in {"after", "done"} /\ drv.entered /\ drv.raised = "none"

\* C15: the page is recorded as current_page exactly when the first routing
\* attempt found it, and in the forms and the serializer that attempt is made
\* with the complete path; a page found by a later attempt, made after
\* trailing components were dropped, is recorded as best_match_page and never
\* as current_page; and when no attempt succeeds neither is set
C15_FullMatch ==
    LET log == drv.attempts
        n == Len(log)
    IN  Derived =>
          /\ (drv.current_page # NONE) <=> (n >= 1 /\ log[1].page # NONE)
          /\ drv.current_page # NONE => drv.current_page = log[1].page
          /\ \A i \in 2..n :
                log[i].page # NONE =>
                    /\ drv.best_match_page = log[i].page
                    /\ drv.current_page = NONE
          /\ (\A i \in 1..n : log[i].page = NONE) =>
                drv.current_page = NONE /\ drv.best_match_page = NONE
          /\ drv.impl \in {"form", "serializer"} =>
                \A i \in 1..n :
                    log[i].path_components =
                        SubSeq(drv.url.path, 1, Len(drv.url.path) + 1 - i)

\* Witness for C15: a form finds page 5 at /a/c/ after /a/c/x/ failed, and
\* records it as the best match only
C15_Witness ==
    /\ Derived /\ drv.impl = "form"
    /\ drv.url.path = <<"a", "c", "x">>
    /\ Len(drv.attempts) = 2
    /\ drv.best_match_page = 5 /\ drv.current_page = NONE

\* C16 (as stated): when best matches are accepted and every attempt fails,
\* as many routing attempts are made as the URL's path has components; when
\* they are not accepted, exactly one attempt is made
C16_AsStated ==
    Derived =>
        /\ (/\ drv.accept_best_match
            /\ \A i \in 1..Len(drv.attempts) : drv.attempts[i].page = NONE)
           => Len(drv.attempts) = Len(drv.url.path)
        /\ ~drv.accept_best_match => Len(drv.attempts) = 1

\* C17: the section root derived from a page (the current page, or else the
\* best match) is the page itself at depth SECTION_ROOT_DEPTH, its ancestor at
\* that depth when it is deeper, and none (with an error on
\* 'section_root_page' in the form) when it is shallower or there is no page
C17_SectionRoot ==
    LET page == IF drv.current_page # NONE THEN drv.current_page
                ELSE drv.best_match_page
        depth == drv.section_root_depth
        root == drv.section_root_page
    IN  (drv.pc = "done" /\ drv.impl \in {"form", "view"} /\ drv.raised = "none") =>
          /\ (page # NONE /\ Depth(page) = depth) => root = page
          /\ (page # NONE /\ Depth(page) > depth) =>
                /\ root \in Pages /\ root # page
                /\ StartsWith(PagePath[page], PagePath[root])
          /\ (page = NONE \/ Depth(page) < depth) =>
                /\ root = NONE
                /\ drv.impl = "form" => "section_root_page" \in drv.errors
          /\ root # NONE =>
                /\ Depth(root) = depth
                /\ "section_root_page" \notin drv.errors

\* Witness for C17: with SECTION_ROOT_DEPTH 3 the best match, page 5 of depth
\* 4, gives its ancestor page 3 as the section root
C17_Witness ==
    /\ drv.pc = "done" /\ drv.impl = "form"
    /\ drv.section_root_depth = 3
    /\ drv.current_page = NONE /\ drv.best_match_page = 5
    /\ drv.section_root_page = 3

(***************************************************************************)
(* Sub-menu template names by level (models/mixins.py)                     *)
(***************************************************************************)

\* The deepest level a sub-menu template is asked for
MaxSubLevel == 4

\* The longest list of template names
MaxListLen == 3

\* A list (or tuple) of template names, and None where one is expected
ListVal(names) == [t |-> "list", v |-> names]
NoList == [t |-> "NoneType", v |-> <<>>]

\* bool(value): None, '' and the empty list are false
Truthy(x) ==
    CASE x.t = "NoneType" -> FALSE
      [] x.t = "str" -> x.v # 0
      [] x.t = "list" -> x.v # <<>>
      [] OTHER -> TRUE

\* A returned value, or the exception raised instead
Returned(value) == [raised |-> "none", value |-> value]
Raised(exception) == [raised |-> exception, value |-> PyNone]

\* get_template_name_for_level: indexing a list past its end raises
\* IndexError, which `except KeyError` does not catch
GetTemplateNameForLevel(template_name_list, level) ==
    IF level < 2 THEN Raised("AssertionError")
    ELSE IF ~Truthy(template_name_list) THEN Returned(PyNone)
    ELSE IF level - 1 <= Len(template_name_list.v)
         THEN Returned(template_name_list.v[level - 1])
         ELSE Raised("IndexError")

\* The WAGTAILMENUS_DEFAULT_FLAT_MENU_SUB_MENU_TEMPLATES setting: not set, a
\* list, or a dict of lists keyed by handle
SettingUnset == [kind |-> "unset", list |-> NoList, dict |-> <<>>]
SettingList(names) == [kind |-> "list", list |-> ListVal(names), dict |-> <<>>]
SettingDict(dict) == [kind |-> "dict", list |-> NoList, dict |-> dict]

\* Mutant: the list under 'default' returned for every handle
GetSubMenuTemplateNamesFromSetting_DefaultOnly(setting, handle) == CASE setting.kind = "unset" -> NoList [] setting.kind = "list" -> setting.list [] setting.kind = "dict" -> setting.dict[<<"default">>]

\* AbstractFlatMenu.get_sub_menu_template_names_from_setting
GetSubMenuTemplateNamesFromSetting(setting, handle) == CASE setting.kind = "unset" -> NoList [] setting.kind = "list" -> setting.list [] setting.kind = "dict" -> IF handle \in DOMAIN setting.dict THEN setting.dict[handle] ELSE setting.dict[<<"default">>]

\* a or b, for results of which the first may be an exception
OrElse(first, second) ==
    IF first.raised # "none" THEN first
    ELSE IF Truthy(first.value) THEN first
    ELSE second

\* DefinesSubMenuTemplatesMixin._get_specified_sub_menu_template_name
GetSpecifiedSubMenuTemplateName(m, level) ==
    OrElse(Returned(m.opt_name),
    OrElse(GetTemplateNameForLevel(m.opt_names, level),
    OrElse(Returned(m.cls_name),
    OrElse(GetTemplateNameForLevel(m.cls_names, level),
           GetTemplateNameForLevel(
               GetSubMenuTemplateNamesFromSetting(m.setting, m.handle), level)))))

\* DefinesSubMenuTemplatesMixin.get_sub_menu_template on an instance without
\* cached templates: how the template is looked for
GetLevelSubMenuTemplate(m, level) ==
    LET template_name == GetSpecifiedSubMenuTemplateName(m, level)
    IN  IF template_name.raised # "none"
        THEN [raised |-> template_name.raised, how |-> "none", name |-> PyNone]
        ELSE IF Truthy(template_name.value)
        THEN [raised |-> "none", how |-> "get_template",
              name |-> template_name.value]
        ELSE [raised |-> "none",
              how |-> "select_template(get_sub_menu_template_names())",
              name |-> PyNone]

\* The first n of the names a source of template names lists; the names of
\* different sources differ
NameList(base, n) == ListVal([i \in 1..n |-> StrVal(base + i)])

NameLists(base) == {NoList} \cup {NameList(base, n) : n \in 0..MaxListLen}

SubLevels == 2..MaxSubLevel

LvlHandles == {<<"test-1">>, <<"test-3">>}

Settings ==
    {SettingUnset, SettingList(NameList(50, 1).v), SettingList(NameList(50, 2).v),
     SettingDict([h \in {<<"default">>} |-> NameList(60, 1)]),
     SettingDict([h \in {<<"default">>, <<"test-1">>} |->
                    IF h = <<"default">> THEN NameList(60, 2)
                    ELSE NameList(70, 1)])}

\* A menu instance: the options of the tag, the attributes of its class, the
\* setting and its handle
LvlMenu(opt_name, opt_names, cls_name, cls_names, setting, handle) ==
    [opt_name |-> opt_name, opt_names |-> opt_names, cls_name |-> cls_name,
     cls_names |-> cls_names, setting |-> setting, handle |-> handle]

LvlMenus ==
    {LvlMenu(on, ons, cn, cns, st, h) :
        on \in {PyNone, StrVal(0), StrVal(10)},
        ons \in {NoList} \cup {NameList(20, n) : n \in {0, 1, 2}},
        cn \in {PyNone, StrVal(30)},
        cns \in {NoList} \cup {NameList(40, n) : n \in {1, 2}},
        st \in Settings, h \in LvlHandles}

PlainMenu == LvlMenu(PyNone, NoList, PyNone, NoList, SettingUnset, <<"test-1">>)

PendingLevelCall(call, m, list, level) ==
    [call |-> call, done |-> FALSE, m |-> m, template_name_list |-> list,
     level |-> level, raised |-> "none", result |-> PyNone, how |-> "none",
     cached |-> {}]

PendingLevelCalls ==
    {PendingLevelCall("get_template_name_for_level", PlainMenu, list, level) :
        list \in NameLists(0), level \in 1..MaxSubLevel}
    \cup
    {PendingLevelCall("get_sub_menu_template_names_from_setting",
                      [PlainMenu EXCEPT !.setting = st, !.handle = h],
                      NoList, 2) :
        st \in Settings, h \in LvlHandles}
    \cup
    {PendingLevelCall(call, m, NoList, level) :
        call \in {"_get_specified_sub_menu_template_name", "get_sub_menu_template"},
        m \in LvlMenus, level \in SubLevels}

InitLevels ==
    /\ lvlCall \in PendingLevelCalls
    /\ InitPrimeIdle /\ InitPipeIdle /\ InitPagesIdle /\ InitMenuIdle
    /\ InitTplIdle /\ InitDbIdle /\ InitRegIdle /\ InitTagsIdle /\ InitUrlIdle
    /\ InitMoreIdle

\* get_template_name_for_level(template_name_list, level)
CallGetTemplateNameForLevel ==
    /\ lvlCall.call = "get_template_name_for_level" /\ ~lvlCall.done
    /\ LET got == GetTemplateNameForLevel(lvlCall.template_name_list,
                                          lvlCall.level)
       IN  lvlCall' = [lvlCall EXCEPT !.done = TRUE, !.raised = got.raised,
                                      !.result = got.value]
    /\ UNCHANGED notLvl

\* menu.get_sub_menu_template_names_from_setting()
CallGetSubMenuTemplateNamesFromSetting ==
    /\ lvlCall.call = "get_sub_menu_template_names_from_setting" /\ ~lvlCall.done
    /\ lvlCall' = [lvlCall EXCEPT !.done = TRUE,
                      !.result = GetSubMenuTemplateNamesFromSetting(
                                     lvlCall.m.setting, lvlCall.m.handle)]
    /\ UNCHANGED notLvl

\* menu._get_specified_sub_menu_template_name(level)
CallGetSpecifiedSubMenuTemplateName ==
    /\ lvlCall.call = "_get_specified_sub_menu_template_name" /\ ~lvlCall.done
    /\ LET got == GetSpecifiedSubMenuTemplateName(lvlCall.m, lvlCall.level)
       IN  lvlCall' = [lvlCall EXCEPT !.done = TRUE, !.raised = got.raised,
                                      !.result = got.value]
    /\ UNCHANGED notLvl

\* menu.get_sub_menu_template(level), the template cached for the level
CallGetLevelSubMenuTemplate ==
    /\ lvlCall.call = "get_sub_menu_template" /\ ~lvlCall.done
    /\ LET got == GetLevelSubMenuTemplate(lvlCall.m, lvlCall.level)
       IN  lvlCall' = [lvlCall EXCEPT !.done = TRUE, !.raised = got.raised,
                                      !.result = got.name, !.how = got.how,
                                      !.cached = IF got.raised = "none"
                                                 THEN {lvlCall.level} ELSE {}]
    /\ UNCHANGED notLvl

NextLevels ==
    \/ CallGetTemplateNameForLevel
    \/ CallGetSubMenuTemplateNamesFromSetting
    \/ CallGetSpecifiedSubMenuTemplateName
    \/ CallGetLevelSubMenuTemplate

SpecLevels == InitLevels /\ [][NextLevels]_vars

\* The entry of a list for a level as C19 describes it: None for no list or
\* an empty one, the entry at index level-2, or the last entry of a shorter
\* list
EntryForLevel(list, level) ==
    IF list.t = "NoneType" \/ list.v = <<>> THEN PyNone
    ELSE IF Len(list.v) >= level - 1 THEN list.v[level - 1]
    ELSE list.v[Len(list.v)]

\* C18 (as stated): _get_specified_sub_menu_template_name(level) returns the
\* first specified value of: the sub_menu_template_name option, the entry for
\* the level of the sub_menu_template_names option, the class's
\* sub_menu_template_name, the entry for the level of the class's
\* sub_menu_template_names, the entry for the level of the names from the
\* setting; None when there is none, and then get_sub_menu_template searches
\* get_sub_menu_template_names()
C18_AsStated ==
    LET m == lvlCall.m
        level == lvlCall.level
        fromSetting ==
            CASE m.setting.kind = "unset" -> NoList
              [] m.setting.kind = "list" -> m.setting.list
              [] m.setting.kind = "dict" ->
                    IF m.handle \in DOMAIN m.setting.dict
                    THEN m.setting.dict[m.handle]
                    ELSE m.setting.dict[<<"default">>]
        candidates == <<m.opt_name, EntryForLevel(m.opt_names, level),
                        m.cls_name, EntryForLevel(m.cls_names, level),
                        EntryForLevel(fromSetting, level)>>
        specified == {i \in 1..5 : Truthy(candidates[i])}
        expected == IF specified = {} THEN PyNone
                    ELSE candidates[CHOOSE i \in specified :
                                        \A j \in specified : i <= j]
    IN  /\ (lvlCall.done /\ lvlCall.call = "_get_specified_sub_menu_template_name")
           => lvlCall.raised = "none" /\ lvlCall.result = expected
        /\ (lvlCall.done /\ lvlCall.call = "get_sub_menu_template")
           => /\ lvlCall.raised = "none"
              /\ IF specified = {}
                 THEN lvlCall.how = "select_template(get_sub_menu_template_names())"
                 ELSE lvlCall.how = "get_template" /\ lvlCall.result = expected

\* C19 (as stated): for a level >= 2 get_template_name_for_level never raises;
\* it returns None for no list or an empty one, the entry at index level-2
\* when there is one, and the last entry of a shorter list
C19_AsStated ==
    (/\ lvlCall.done /\ lvlCall.call = "get_template_name_for_level"
     /\ lvlCall.level >= 2)
    => /\ lvlCall.raised = "none"
       /\ lvlCall.result = EntryForLevel(lvlCall.template_name_list, lvlCall.level)

RECURSIVE DeriveLoop(_, _, _)
DeriveLoop(path_components, first_run, accept_best_match) ==
    IF path_components = <<>>
    THEN [current_page |-> NONE, best_match_page |-> NONE]
    ELSE LET page == Route(path_components, FixtureLive)
         IN  IF page # NONE
             THEN IF first_run
                  THEN [current_page |-> page, best_match_page |-> NONE]
                  ELSE [current_page |-> NONE, best_match_page |-> page]
             ELSE IF ~accept_best_match
                  THEN [current_page |-> NONE, best_match_page |-> NONE]
                  ELSE DeriveLoop(Pop(path_components), FALSE, accept_best_match)

\* ChildrenMenuGeneratorArgumentForm.derive_parent_page
FormDeriveParentPage(r) ==
    IF r.current_page # NONE
    THEN [r EXCEPT !.parent_page = r.current_page]
    ELSE [r EXCEPT !.errors = @ \cup {"parent_page"}]

\* ChildrenMenuArgumentSerializer.derive_parent_page: data['current_page']
\* fails when the key is missing, and the error is raised whether or not a
\* parent page was set
SerializerDeriveParentPage(r) ==
    IF r.current_page = NONE
    THEN [r EXCEPT !.raised = "KeyError"]
    ELSE [r EXCEPT !.parent_page = r.current_page,
                   !.raised = "ValidationError",
                   !.errors = @ \cup {"parent_page"}]

\* ChildrenMenuGeneratorArgumentForm.clean
FormChildrenClean(r) ==
    LET \* derive_site
        r1 == IF r.site # NONE \/ ~r.has_url THEN r
              ELSE IF r.found_site # NONE THEN [r EXCEPT !.site = r.found_site]
              ELSE [r EXCEPT !.errors = @ \cup {"site"}]
        \* derive_current_page, overridden and inherited
        force_derivation == r1.parent_page = NONE /\ r1.current_page = NONE
        got == DeriveLoop(r1.path, TRUE, FALSE)
        r2 == IF r1.current_page # NONE THEN r1
              ELSE IF ~force_derivation /\ ~r1.apply_active_classes THEN r1
              ELSE IF ~r1.has_url \/ r1.site = NONE
              THEN IF force_derivation
                   THEN [r1 EXCEPT !.errors = @ \cup {"current_page"}]
                   ELSE r1
              ELSE [r1 EXCEPT !.current_page = got.current_page,
                              !.best_match_page = got.best_match_page,
                              !.errors = IF got.current_page = NONE
                                         THEN @ \cup {"current_page"} ELSE @]
        r3 == IF r2.parent_page = NONE THEN FormDeriveParentPage(r2) ELSE r2
    IN  [r3 EXCEPT !.pc = "done"]

\* ChildrenMenuArgumentSerializer.to_internal_value
SerializerChildrenToInternalValue(r) ==
    LET supplied == r.site # NONE /\ r.current_page # NONE
        site == IF r.site # NONE THEN r.site ELSE r.found_site
        force_derivation == r.parent_page = NONE /\ r.current_page = NONE
        got == DeriveLoop(r.path, TRUE, TRUE)
        r1 == IF supplied THEN r
              ELSE IF ~r.has_url
              THEN [r EXCEPT !.raised = "ValidationError",
                             !.errors = {"current_url"}]
              ELSE IF site = NONE
              THEN [r EXCEPT !.raised = "ValidationError", !.errors = {"site"}]
              ELSE IF r.current_page # NONE
                      \/ (~force_derivation /\ ~r.apply_active_classes)
              THEN [r EXCEPT !.site = site]
              ELSE [r EXCEPT !.site = site,
                             !.current_page = got.current_page,
                             !.best_match_page = got.best_match_page]
        r2 == IF r1.raised = "none" /\ r1.parent_page = NONE
              THEN SerializerDeriveParentPage(r1) ELSE r1
    IN  [r2 EXCEPT !.pc = "done"]

\* ChildrenMenuRenderView.derive_option_values_from_arg_data: the inherited
\* method is called without its site and current_page arguments
ViewChildrenOptionValues(r) == [r EXCEPT !.pc = "done", !.raised = "TypeError"]

\* Arguments of a children menu not yet validated
PendingChildRun(impl, parent_page, current_page, site, has_url, path, found_site, aac) ==
    [pc |-> "start", impl |-> impl, parent_page |-> parent_page,
     current_page |-> current_page, site |-> site, has_url |-> has_url,
     path |-> path, found_site |-> found_site, apply_active_classes |-> aac,
     best_match_page |-> NONE, errors |-> {}, raised |-> "none",
     out |-> "unset",
     supplied |-> [parent_page |-> parent_page, current_page |-> current_page]]

\* The paths of the URLs supplied as 'current_url'
ChildPaths == {<<>>, <<"a">>, <<"a", "c">>, <<"a", "x">>, <<"x">>}

PendingChildRuns ==
    {PendingChildRun(impl, pp, cp, site, TRUE, path, found, aac) :
        impl \in {"form", "serializer"}, pp \in {NONE, 3}, cp \in {NONE, 5},
        site \in {NONE, 1}, path \in ChildPaths, found \in {NONE, 1},
        aac \in BOOLEAN}
    \cup
    {PendingChildRun(impl, pp, cp, site, FALSE, <<>>, NONE, aac) :
        impl \in {"form", "serializer"}, pp \in {NONE, 3}, cp \in {NONE, 5},
        site \in {NONE, 1}, aac \in BOOLEAN}
    \cup
    {PendingChildRun(impl, pp, cp, 1, FALSE, <<>>, NONE, FALSE) :
        impl \in {"tag", "view"}, pp \in {NONE, 3}, cp \in {NONE, 5}}

InitChildren ==
    /\ childRun \in PendingChildRuns
    /\ InitPrimeIdle /\ InitPipeIdle /\ InitPagesIdle /\ InitMenuIdle
    /\ InitTplIdle /\ InitDbIdle /\ InitRegIdle /\ InitTagsIdle /\ InitUrlIdle
    /\ InitLvlIdle /\ InitNestIdle /\ InitKwIdle /\ InitPfdIdle /\ InitSectIdle /\ InitActiveIdle /\ InitAddIdle

\* The form is cleaned
ChildFormClean ==
    /\ childRun.pc = "start" /\ childRun.impl = "form"
    /\ childRun' = FormChildrenClean(childRun)
    /\ UNCHANGED notChild

\* The serializer validates the GET parameters
ChildSerializerValidate ==
    /\ childRun.pc = "start" /\ childRun.impl = "serializer"
    /\ childRun' = SerializerChildrenToInternalValue(childRun)
    /\ UNCHANGED notChild

\* The view works out the option values from the validated arguments
ChildViewOptionValues ==
    /\ childRun.pc = "start" /\ childRun.impl = "view"
    /\ childRun' = ViewChildrenOptionValues(childRun)
    /\ UNCHANGED notChild

\* The children_menu tag is called in a template
ChildTag ==
    /\ childRun.pc = "start" /\ childRun.impl = "tag"
    /\ LET a == [NoArgs EXCEPT !.parent_page =
                     IF childRun.parent_page = NONE THEN PyNone
                     ELSE PageVal(childRun.parent_page)]
           ctx == [NoContext EXCEPT !.self = childRun.current_page]
           res == TagChildrenMenu(a, ctx)
       IN  childRun' = [childRun EXCEPT
                            !.pc = "done",
                            !.raised = res.raised,
                            !.out = res.out,
                            !.parent_page =
                                IF @ = NONE /\ res.raised = "none"
                                THEN childRun.current_page ELSE @]
    /\ UNCHANGED notChild

NextChildren ==
    \/ ChildFormClean
    \/ ChildSerializerValidate
    \/ ChildViewOptionValues
    \/ ChildTag

SpecChildren == InitChildren /\ [][NextChildren]_vars

\* C21 (as stated): when no parent_page is supplied the current page, supplied
\* or derived, is used as the parent page and nothing fails; an error on
\* 'parent_page' (API) or empty output (tag) for want of a parent page happens
\* only when there is no current page either (runs that fail over the site or
\* the URL are left aside)
C21_AsStated ==
    (/\ childRun.pc = "done" /\ childRun.supplied.parent_page = NONE
     /\ childRun.errors \subseteq {"parent_page"}) =>
        /\ childRun.current_page # NONE =>
              /\ childRun.raised = "none"
              /\ "parent_page" \notin childRun.errors
              /\ childRun.parent_page = childRun.current_page
              /\ childRun.out # ""
        /\ ("parent_page" \in childRun.errors \/ childRun.out = "") =>
              childRun.current_page = NONE

\* C21, the part the form and the tag keep: with no parent_page supplied and
\* a current page available, the current page becomes the parent page
C21_FormAndTag ==
    (/\ childRun.pc = "done" /\ childRun.impl \in {"form", "tag"}
     /\ childRun.supplied.parent_page = NONE) =>
        /\ childRun.current_page # NONE =>
              /\ "parent_page" \notin childRun.errors
              /\ childRun.parent_page = childRun.current_page
              /\ childRun.out # ""
        /\ ("parent_page" \in childRun.errors \/ childRun.out = "") =>
              childRun.current_page = NONE

\* The serializer rejects the arguments although the current page was
\* supplied with the site
C21_SerializerRejects ==
    /\ childRun.pc = "done" /\ childRun.impl = "serializer"
    /\ childRun.supplied.parent_page = NONE
    /\ childRun.supplied.current_page = 5
    /\ childRun.raised = "ValidationError"
    /\ "parent_page" \in childRun.errors

(***************************************************************************)
(* Nested rendering: a menu tag and the sub_menu calls of its templates    *)
(***************************************************************************)

\* The most levels a tag is asked for
MaxNest == 3

\* The template context of a page that is not inside any menu
OuterContext ==
    [current_level |-> 0, original_menu_tag |-> "", max_levels |-> 0,
     use_specific |-> USE_SPECIFIC_AUTO]

\* Menu.format_contextual_vals: current_level and original_menu_tag
FormatContextualVals(context, menu_tag_name) ==
    [current_level |-> context.current_level + 1,
     original_menu_tag |-> IF context.original_menu_tag = "" THEN menu_tag_name
                           ELSE context.original_menu_tag]

\* The menu items of a MenuFromRootPage rendered at the given level, primed
NestedItems(root_page, max_levels, use_specific, has_submenu_items, current_level) ==
    LET pfd == RootPagesForDisplay(root_page, max_levels, FixtureBase)
        raw == IF max_levels = 1 THEN PageList(pfd)
               ELSE ChildrenForPage(root_page, pfd)
        c == [IdleCtx EXCEPT !.called = TRUE, !.menu = "root",
                             !.root_page = root_page,
                             !.current_level = current_level,
                             !.max_levels = max_levels,
                             !.use_specific = use_specific,
                             !.has_submenu_items = has_submenu_items,
                             !.show_in_menus_custom = TRUE,
                             !.pages_for_display = pfd]
    IN  PrimeMenuItems([i \in DOMAIN raw |-> PageObj(raw[i])], c)

\* Menu.render_init and get_context_data for a MenuFromRootPage: the values
\* the menu's template (and every tag called in it) finds in its context
RenderedLevel(context, menu_tag_name, root_page, max_levels, use_specific, hsi) ==
    LET cvals == FormatContextualVals(context, menu_tag_name)
    IN  [current_level |-> cvals.current_level,
         original_menu_tag |-> cvals.original_menu_tag,
         max_levels |-> max_levels, use_specific |-> use_specific,
         root_page |-> root_page,
         menu_items |-> NestedItems(root_page, max_levels, use_specific, hsi,
                                    cvals.current_level)]

\* The positional arguments sub_menu hands to menu.render
SubMenuRenderArgs == <<"menu_instance", "template", "sub_menu", "context">>

\* SubMenu.render(self, template, *args) calls Menu.render(*args), which
\* takes menu_tag_name and context
SubMenuRenderRaises(positional) == Len(positional) - 1 # 2

\* A tag about to be rendered in a page template
PendingNest(tag, root_page, max_levels, use_specific, hsi) ==
    [pc |-> "tag", tag |-> tag, root_page |-> root_page,
     max_levels |-> max_levels, use_specific |-> use_specific,
     has_submenu_items |-> hsi, levels |-> <<>>, opened |-> <<>>,
     raised |-> "none"]

PendingNests ==
    {PendingNest(tag, root, ml, us, hsi) :
        tag \in {"children_menu", "section_menu"}, root \in {2, 3, 4, 5},
        ml \in 1..MaxNest,
        us \in {USE_SPECIFIC_OFF, USE_SPECIFIC_AUTO, USE_SPECIFIC_ALWAYS},
        hsi \in BOOLEAN}

InitNested ==
    /\ nest \in PendingNests
    /\ InitPrimeIdle /\ InitPipeIdle /\ InitPagesIdle /\ InitMenuIdle
    /\ InitTplIdle /\ InitDbIdle /\ InitRegIdle /\ InitTagsIdle /\ InitUrlIdle
    /\ InitLvlIdle /\ InitChildIdle /\ InitKwIdle /\ InitPfdIdle /\ InitSectIdle /\ InitActiveIdle /\ InitAddIdle

\* children_menu or section_menu: the menu of the original tag is rendered
NestRenderTag ==
    /\ nest.pc = "tag"
    /\ nest' = [nest EXCEPT
                  !.pc = "template",
                  !.levels = <<RenderedLevel(OuterContext, nest.tag,
                                             nest.root_page, nest.max_levels,
                                             nest.use_specific,
                                             nest.has_submenu_items)>>]
    /\ UNCHANGED notNest

\* The template of the innermost menu calls sub_menu for an item flagged
\* has_children_in_menu
NestSubMenu ==
    /\ nest.pc = "template"
    /\ LET context == nest.levels[Len(nest.levels)]
       IN  \E i \in DOMAIN context.menu_items :
             /\ context.menu_items[i].has_children_in_menu
             /\ LET parent_page == context.menu_items[i].link_page
                    max_levels == context.max_levels
                    use_specific == context.use_specific
                IN  nest' =
                      IF SubMenuRenderRaises(SubMenuRenderArgs)
                      THEN [nest EXCEPT !.pc = "done", !.raised = "TypeError",
                                        !.opened = Append(@, parent_page)]
                      ELSE [nest EXCEPT
                              !.opened = Append(@, parent_page),
                              !.levels = Append(@,
                                  RenderedLevel(context, "sub_menu", parent_page,
                                                max_levels, use_specific,
                                                nest.has_submenu_items))]
    /\ UNCHANGED notNest

\* The templates are rendered to the end without a further sub_menu call
NestFinish ==
    /\ nest.pc = "template"
    /\ nest' = [nest EXCEPT !.pc = "done"]
    /\ UNCHANGED notNest

NextNested ==
    \/ NestRenderTag
    \/ NestSubMenu
    \/ NestFinish

SpecNested == InitNested /\ [][NextNested]_vars

\* C22 (as stated): the menu of the original tag is rendered at level 1; each
\* sub-menu opened for an item flagged has_children_in_menu is rendered one
\* level below the menu around it; original_menu_tag is the outermost tag at
\* every level; and no level exceeds max_levels
C22_AsStated ==
    nest.pc \in {"template", "done"} =>
        /\ nest.raised = "none"
        /\ Len(nest.levels) = Len(nest.opened) + 1
        /\ \A i \in DOMAIN nest.levels :
              /\ nest.levels[i].current_level = i
              /\ nest.levels[i].original_menu_tag = nest.tag
              /\ nest.levels[i].current_level <= nest.max_levels

\* The levels that do get rendered: only the menu of the original tag, at
\* level 1 and under its own name
C22_OutermostLevel ==
    nest.pc \in {"template", "done"} =>
        /\ Len(nest.levels) = 1
        /\ nest.levels[1].current_level = 1
        /\ nest.levels[1].original_menu_tag = nest.tag
        /\ nest.raised = "TypeError" <=> nest.opened # <<>>

\* A sub_menu call for a flagged item of a two-level children menu fails
C22_SubMenuFails ==
    /\ nest.pc = "done" /\ nest.tag = "children_menu"
    /\ nest.max_levels = 2 /\ nest.root_page = 2
    /\ nest.opened = <<3>> /\ nest.raised = "TypeError"

(***************************************************************************)
(* The keyword arguments of the hooks                                      *)
(***************************************************************************)

\* Menu.get_common_hook_kwargs
GetCommonHookKwargs(m) ==
    [menu_type |-> m.menu_type, max_levels |-> m.max_levels,
     use_specific |-> m.use_specific]

\* Menu.get_menu_item_modify_hook_kwargs
GetMenuItemModifyHookKwargs(m) ==
    [original_menu_tag |-> m.contextual_vals.original_menu_tag,
     current_level |-> m.contextual_vals.current_level,
     max_levels |-> m.max_levels,
     use_specific |-> m.max_levels]

\* A menu whose render_init has run, and the number of functions registered
\* for each of the two hooks
PendingHookRun(menu_type, max_levels, use_specific, current_level, raw, primed) ==
    [pc |-> "start",
     menu |-> [menu_type |-> menu_type, max_levels |-> max_levels,
               use_specific |-> use_specific,
               contextual_vals |-> [current_level |-> current_level,
                                    original_menu_tag |-> menu_type]],
     hooks_raw |-> raw, hooks_primed |-> primed,
     hook_kwargs |-> <<>>, raw_calls |-> <<>>, primed_calls |-> <<>>,
     common |-> <<>>]

PendingHookRuns ==
    {PendingHookRun(mt, ml, us, cl, raw, primed) :
        mt \in {"main_menu", "children_menu"}, ml \in 1..MaxLevel,
        us \in {USE_SPECIFIC_OFF, USE_SPECIFIC_AUTO, USE_SPECIFIC_TOP_LEVEL,
                USE_SPECIFIC_ALWAYS},
        cl \in 1..MaxLevel, raw \in 0..MaxHooks, primed \in 0..MaxHooks}

InitKwargs ==
    /\ hookRun \in PendingHookRuns
    /\ InitBaseIdle /\ InitChildIdle /\ InitNestIdle /\ InitPfdIdle /\ InitSectIdle /\ InitActiveIdle /\ InitAddIdle

\* get_primed_menu_items: the keyword arguments are built once and every hook
\* of both stages is called with them
KwGetPrimedMenuItems ==
    /\ hookRun.pc = "start"
    /\ LET hook_kwargs == GetMenuItemModifyHookKwargs(hookRun.menu)
       IN  hookRun' = [hookRun EXCEPT
                          !.pc = "done",
                          !.hook_kwargs = <<hook_kwargs>>,
                          !.raw_calls = [i \in 1..hookRun.hooks_raw |-> hook_kwargs],
                          !.primed_calls = [i \in 1..hookRun.hooks_primed |-> hook_kwargs]]
    /\ UNCHANGED notKw

\* get_base_page_queryset: kwargs = self.get_common_hook_kwargs()
KwGetCommonHookKwargs ==
    /\ hookRun.pc \in {"start", "done"}
    /\ hookRun.common = <<>>
    /\ hookRun' = [hookRun EXCEPT !.common = <<GetCommonHookKwargs(hookRun.menu)>>]
    /\ UNCHANGED notKw

NextKwargs ==
    \/ KwGetPrimedMenuItems
    \/ KwGetCommonHookKwargs

SpecKwargs == InitKwargs /\ [][NextKwargs]_vars

\* The keyword arguments of every hook call made
HookCallKwargs ==
    {hookRun.raw_calls[i] : i \in DOMAIN hookRun.raw_calls}
        \cup {hookRun.primed_calls[i] : i \in DOMAIN hookRun.primed_calls}

\* C23 (as stated): every hook of both stages is called with the menu's
\* max_levels as 'max_levels', the menu's use_specific as 'use_specific' (the
\* value get_common_hook_kwargs reports), the render's current_level and
\* original_menu_tag, and the two stages receive the same keyword arguments
C23_AsStated ==
    hookRun.pc = "done" =>
        /\ \A kw \in HookCallKwargs :
              /\ kw.max_levels = hookRun.menu.max_levels
              /\ kw.use_specific = hookRun.menu.use_specific
              /\ hookRun.common # <<>> =>
                    kw.use_specific = hookRun.common[1].use_specific
              /\ kw.current_level = hookRun.menu.contextual_vals.current_level
              /\ kw.original_menu_tag = hookRun.menu.contextual_vals.original_menu_tag
        /\ Cardinality(HookCallKwargs) <= 1

\* What holds of the keyword arguments: all but 'use_specific' describe the
\* menu, and both stages receive the same ones
C23_AllButUseSpecific ==
    hookRun.pc = "done" =>
        /\ \A kw \in HookCallKwargs :
              /\ kw.max_levels = hookRun.menu.max_levels
              /\ kw.use_specific = hookRun.menu.max_levels
              /\ kw.current_level = hookRun.menu.contextual_vals.current_level
              /\ kw.original_menu_tag = hookRun.menu.contextual_vals.original_menu_tag
        /\ Cardinality(HookCallKwargs) <= 1

\* A hook of a menu with max_levels 2 and use_specific AUTO is told that
\* use_specific is 2
C23_WrongUseSpecific ==
    /\ hookRun.pc = "done" /\ hookRun.hooks_raw >= 1 /\ hookRun.hooks_primed >= 1
    /\ hookRun.menu.max_levels = 2
    /\ hookRun.menu.use_specific = USE_SPECIFIC_AUTO
    /\ hookRun.raw_calls[1].use_specific = 2
    /\ hookRun.primed_calls[1].use_specific = 2
    /\ hookRun.common # <<>> /\ hookRun.common[1].use_specific = USE_SPECIFIC_AUTO

(***************************************************************************)
(* The cached properties of a menu instance                                *)
(***************************************************************************)

\* Menu.set_use_specific
SetUseSpecific(m, use_specific) ==
    IF m.use_specific # use_specific
    THEN LET m1 == IF /\ use_specific >= USE_SPECIFIC_TOP_LEVEL
                      /\ m.use_specific < USE_SPECIFIC_TOP_LEVEL
                   THEN [ClearPageCache(m) EXCEPT
                            !.top_level_items =
                                [cached |-> FALSE, items |-> <<>>, specific |-> FALSE]]
                   ELSE m
         IN  [m1 EXCEPT !.use_specific = use_specific]
    ELSE m

\* A read of menu.top_level_items: computed on the first read, kept afterwards
WithTopLevelItems(m, liveS, expiredS, showS, pageHooks, itemHooks) ==
    IF m.top_level_items.cached THEN m
    ELSE [m EXCEPT !.top_level_items =
              TopLevelItems(m.use_specific, liveS, expiredS, showS,
                            pageHooks, itemHooks)]

\* MenuWithMenuItems.get_pages_for_display on the instance: with max_levels 1
\* the empty queryset is returned at once, otherwise top_level_items is read
\* and specific instances are asked for under USE_SPECIFIC_ALWAYS
GetPagesForDisplay(m, base) ==
    [cached |-> TRUE,
     pages |-> ItemsPagesForDisplay(m.top_level_items.items, m.max_levels, base),
     specific |-> m.max_levels # 1 /\ m.use_specific = USE_SPECIFIC_ALWAYS]

\* A read of menu.pages_for_display
WithPagesForDisplay(m, liveS, expiredS, showS, pageHooks, itemHooks) ==
    IF m.pages_for_display.cached THEN m
    ELSE LET m1 == IF m.max_levels = 1 THEN m
                   ELSE WithTopLevelItems(m, liveS, expiredS, showS,
                                          pageHooks, itemHooks)
         IN  [m1 EXCEPT !.pages_for_display =
                 GetPagesForDisplay(m1, BasePageQueryset(liveS, expiredS, showS,
                                                         pageHooks))]

\* Menu.get_page_children_dict: the pages grouped by the path of their parent
GetPageChildrenDict(pfd) ==
    [cached |-> TRUE,
     children |-> [p \in Pages |-> {q \in pfd.pages :
                                       ParentPath(PagePath[q]) = PagePath[p]}],
     specific |-> pfd.specific]

\* A read of menu.page_children_dict
WithPageChildrenDict(m, liveS, expiredS, showS, pageHooks, itemHooks) ==
    IF m.page_children_dict.cached THEN m
    ELSE LET m1 == WithPagesForDisplay(m, liveS, expiredS, showS,
                                       pageHooks, itemHooks)
         IN  [m1 EXCEPT !.page_children_dict =
                 GetPageChildrenDict(m1.pages_for_display)]

InitCaches ==
    /\ InitPagesIdle
    /\ stored \in [max_levels : Levels, use_specific : UseSpecificValues]
    /\ menu = FreshMenu(stored)
    /\ tagCall = NoTagCall
    /\ InitPrimeIdle /\ InitPipeIdle
    /\ InitTplIdle /\ InitDbIdle /\ InitLaterIdle

\* menu.set_max_levels(max_levels)
CallSetMaxLevels ==
    /\ \E max_levels \in Levels : menu' = SetMaxLevels(menu, max_levels)
    /\ UNCHANGED <<stored, tagCall, vPages, notMenu>>

\* menu.set_use_specific(use_specific)
CallSetUseSpecific ==
    /\ \E use_specific \in UseSpecificValues :
          menu' = SetUseSpecific(menu, use_specific)
    /\ UNCHANGED <<stored, tagCall, vPages, notMenu>>

\* menu.pages_for_display is read
ReadPagesForDisplay ==
    /\ menu' = WithPagesForDisplay(menu, live, expired, showInMenus,
                                   hooksBPQ, hooksMIQ)
    /\ UNCHANGED <<stored, tagCall, vPages, notMenu>>

\* menu.page_children_dict is read
ReadPageChildrenDict ==
    /\ menu' = WithPageChildrenDict(menu, live, expired, showInMenus,
                                    hooksBPQ, hooksMIQ)
    /\ UNCHANGED <<stored, tagCall, vPages, notMenu>>

NextCaches ==
    \/ CallSetMaxLevels
    \/ CallSetUseSpecific
    \/ ReadPagesForDisplay
    \/ ReadPageChildrenDict
    \/ ReadTopLevelItems

SpecCaches == InitCaches /\ [][NextCaches]_vars

\* The three values computed afresh from the menu's current max_levels and
\* use_specific
FreshlyComputed ==
    WithPageChildrenDict(
        WithTopLevelItems(
            [FreshMenu(stored) EXCEPT !.max_levels = menu.max_levels,
                                      !.use_specific = menu.use_specific],
            live, expired, showInMenus, hooksBPQ, hooksMIQ),
        live, expired, showInMenus, hooksBPQ, hooksMIQ)

\* C24 (as stated): whatever calls of set_max_levels and set_use_specific and
\* whatever reads came before, a cached pages_for_display, page_children_dict
\* or top_level_items equals the value computed afresh from the current
\* max_levels and use_specific, specific instances included
C24_AsStated ==
    /\ menu.pages_for_display.cached =>
          menu.pages_for_display = FreshlyComputed.pages_for_display
    /\ menu.page_children_dict.cached =>
          menu.page_children_dict = FreshlyComputed.page_children_dict
    /\ menu.top_level_items.cached =>
          menu.top_level_items = FreshlyComputed.top_level_items

\* What the two setters do keep: the cached pages are those of the current
\* max_levels, and the cached items are the items computed afresh
C24_PagesOfCurrentMaxLevels ==
    /\ menu.pages_for_display.cached =>
          menu.pages_for_display.pages = FreshlyComputed.pages_for_display.pages
    /\ menu.page_children_dict.cached =>
          menu.page_children_dict.children =
              FreshlyComputed.page_children_dict.children
    /\ menu.top_level_items.cached =>
          menu.top_level_items.items = FreshlyComputed.top_level_items.items

\* The pages cached under TOP_LEVEL are still there, not specific, after
\* set_use_specific(ALWAYS)
C24_StaleAfterAlways ==
    /\ menu.use_specific = USE_SPECIFIC_ALWAYS
    /\ menu.max_levels = 2
    /\ menu.pages_for_display.cached
    /\ menu.pages_for_display.pages # {}
    /\ ~menu.pages_for_display.specific

(***************************************************************************)
(* pages_for_display, for any root page and any list of menu items         *)
(***************************************************************************)

\* The loop that builds top_level_items: an item linking to a page is kept
\* when the base page queryset has the page
FilterTopLevel(menu_items, base) ==
    SelectSeq(menu_items,
              LAMBDA item : item.link_page = NONE \/ item.link_page \in base)

\* The max_levels pages_for_display is evaluated for
PfdLevels == 1..(MaxLevel + 1)

\* The rows a menu can have: a link to one of four pages, with sub-navigation
\* allowed or not, or a custom URL
PfdRows(pk) ==
    {MenuItemObj(pk, page, allow, "") : page \in {2, 3, 4, 5}, allow \in BOOLEAN}
        \cup {MenuItemObj(pk, NONE, TRUE, "/about/")}

\* The item lists of the menus
PfdItemLists ==
    {<<>>} \cup {<<a>> : a \in PfdRows(1)}
           \cup {<<a, b>> : a \in PfdRows(1), b \in PfdRows(2)}

PendingPfdRun(kind, root_page, items, max_levels, showS) ==
    [pc |-> "start", kind |-> kind, root_page |-> root_page, items |-> items,
     max_levels |-> max_levels, show_in_menus |-> showS,
     top_level_items |-> <<>>, pages |-> {}]

PendingPfdRuns ==
    {PendingPfdRun("root", root, <<>>, ml, showS) :
        root \in {1, 2, 3, 4, 5}, ml \in PfdLevels,
        showS \in {Pages, Pages \ {6}, Pages \ {5}}}
    \cup
    {PendingPfdRun("items", NONE, items, ml, showS) :
        items \in PfdItemLists, ml \in PfdLevels,
        showS \in {Pages, Pages \ {5}}}

InitPfd ==
    /\ pfdRun \in PendingPfdRuns
    /\ InitBaseIdle /\ InitChildIdle /\ InitNestIdle /\ InitKwIdle /\ InitSectIdle /\ InitActiveIdle /\ InitAddIdle

\* menu.pages_for_display is read for the first time
PfdRead ==
    /\ pfdRun.pc = "start"
    /\ LET base == BasePageQueryset(FixtureLive, FixtureExpired,
                                    pfdRun.show_in_menus, <<>>)
           tli == FilterTopLevel(pfdRun.items, base)
       IN  pfdRun' =
             IF pfdRun.kind = "root"
             THEN [pfdRun EXCEPT
                     !.pc = "done",
                     !.pages = RootPagesForDisplay(pfdRun.root_page,
                                                   pfdRun.max_levels, base)]
             ELSE [pfdRun EXCEPT
                     !.pc = "done",
                     !.top_level_items = tli,
                     !.pages = ItemsPagesForDisplay(tli, pfdRun.max_levels, base)]
    /\ UNCHANGED notPfd

NextPfd == PfdRead

SpecPfd == InitPfd /\ [][NextPfd]_vars

\* p lies below q in the page tree
IsDescendantOf(p, q) == q \in AncestorsOf(p)

\* The pages that pass live, not expired and show_in_menus
PfdDisplayable ==
    {p \in Pages : p \in FixtureLive /\ p \notin FixtureExpired
                   /\ p \in pfdRun.show_in_menus}

\* The top-level items that open a branch: allow_subnav true and a page at
\* SECTION_ROOT_DEPTH or deeper
BranchItems ==
    {i \in DOMAIN pfdRun.top_level_items :
        /\ pfdRun.top_level_items[i].link_page # NONE
        /\ pfdRun.top_level_items[i].allow_subnav
        /\ Depth(pfdRun.top_level_items[i].link_page) >= SECTION_ROOT_DEPTH}

\* The sets of pages the claim gives for the two kinds of menu
PfdExact ==
    pfdRun.pc = "done" =>
        /\ pfdRun.kind = "root" =>
              \A p \in Pages :
                 p \in pfdRun.pages <=>
                    /\ p \in PfdDisplayable
                    /\ IsDescendantOf(p, pfdRun.root_page)
                    /\ Depth(p) - Depth(pfdRun.root_page) \in 1..pfdRun.max_levels
        /\ (pfdRun.kind = "items" /\ pfdRun.max_levels = 1) => pfdRun.pages = {}
        /\ (pfdRun.kind = "items" /\ pfdRun.max_levels > 1) =>
              \A p \in Pages :
                 p \in pfdRun.pages <=>
                    /\ p \in PfdDisplayable
                    /\ \E i \in BranchItems :
                          LET page == pfdRun.top_level_items[i].link_page
                          IN  /\ IsDescendantOf(p, page)
                              /\ Depth(p) - Depth(page) \in 1..(pfdRun.max_levels - 1)

\* C25 (as stated): pages_for_display is exactly the set given for the kind
\* of menu, and no descendant of the page of an item with allow_subnav false
\* is in it
C25_AsStated ==
    /\ PfdExact
    /\ pfdRun.pc = "done" =>
          \A i \in DOMAIN pfdRun.top_level_items :
             LET item == pfdRun.top_level_items[i]
             IN  (item.link_page # NONE /\ ~item.allow_subnav) =>
                    \A p \in pfdRun.pages : ~IsDescendantOf(p, item.link_page)

\* C25 (amended): pages_for_display is exactly the set given for the kind of
\* menu; a descendant of the page of an item with allow_subnav false is in
\* it only when it lies within the levels below the page of another item,
\* one with allow_subnav true
C25_PagesForDisplay ==
    /\ PfdExact
    /\ pfdRun.pc = "done" =>
          \A i \in DOMAIN pfdRun.top_level_items :
             LET item == pfdRun.top_level_items[i]
             IN  (item.link_page # NONE /\ ~item.allow_subnav) =>
                    \A p \in pfdRun.pages :
                       IsDescendantOf(p, item.link_page) =>
                          \E j \in BranchItems \ {i} :
                             LET page == pfdRun.top_level_items[j].link_page
                             IN  /\ IsDescendantOf(p, page)
                                 /\ Depth(p) - Depth(page) < pfdRun.max_levels

\* Witness for C25: a three-level menu with items for pages 3 and 4, page 4
\* without sub-navigation: the two levels below page 3 and nothing below 4
C25_Witness ==
    /\ pfdRun.pc = "done" /\ pfdRun.kind = "items" /\ pfdRun.max_levels = 3
    /\ Len(pfdRun.top_level_items) = 2
    /\ pfdRun.top_level_items[1].link_page = 3
    /\ pfdRun.top_level_items[2].link_page = 4
    /\ ~pfdRun.top_level_items[2].allow_subnav
    /\ pfdRun.pages = {5, 6, 8}

(***************************************************************************)
(* The section root of a section menu                                      *)
(***************************************************************************)

\* Mutant: the class of the section root without the look at the menu items
SectionRootActiveClass_NoRepeat(root, current_page, menu_items, allow_repeating_parents, use_specific) == IF current_page # NONE /\ root = current_page THEN ACTIVE_CLASS ELSE ACTIVE_ANCESTOR_CLASS

\* SectionMenu.get_context_data: the active_class worked out for section_root
SectionRootActiveClass(root, current_page, menu_items, allow_repeating_parents, use_specific) == IF current_page # NONE /\ root = current_page THEN (IF allow_repeating_parents /\ use_specific # USE_SPECIFIC_OFF /\ (\E i \in DOMAIN menu_items : menu_items[i].active_class = ACTIVE_CLASS /\ menu_items[i].pk = root) THEN ACTIVE_ANCESTOR_CLASS ELSE ACTIVE_CLASS) ELSE ACTIVE_ANCESTOR_CLASS

\* SectionMenu.get_context_data, called without keyword arguments as render
\* calls it: the section_root of the context data
SectionGetContextData(r) ==
    IF ~r.show_section_root THEN PageObj(r.root_page)
    ELSE LET i1 == SetHref(SetText(PageObj(r.root_page), "title"),
                           IF r.use_absolute_page_urls THEN "full_url"
                           ELSE "relative_url")
         IN  IF r.apply_active_classes
             THEN SetActiveClass(i1,
                      SectionRootActiveClass(r.root_page, r.current_page,
                                             r.menu_items,
                                             r.allow_repeating_parents,
                                             r.use_specific))
             ELSE i1

\* A primed menu item as the loop over menu_items sees it: its pk (0 when it
\* has none) and its active_class ('' when it has none)
SeenItem(pk, active_class) == [pk |-> pk, active_class |-> active_class]

SeenItems ==
    {SeenItem(pk, ac) : pk \in {0, 3, 5},
                        ac \in {"", ACTIVE_CLASS, ACTIVE_ANCESTOR_CLASS}}

SeenItemLists ==
    {<<>>} \cup {<<a>> : a \in SeenItems}
           \cup {<<a, b>> : a \in SeenItems, b \in SeenItems}

PendingSectRun(root, cp, items, show, aac, arp, us) ==
    [pc |-> "start", root_page |-> root, current_page |-> cp,
     menu_items |-> items, show_section_root |-> show,
     apply_active_classes |-> aac, allow_repeating_parents |-> arp,
     use_specific |-> us, use_absolute_page_urls |-> FALSE,
     section_root |-> PageObj(root)]

PendingSectRuns ==
    {PendingSectRun(3, cp, items, show, aac, arp, us) :
        cp \in {NONE, 3, 5}, items \in SeenItemLists, show \in BOOLEAN,
        aac \in BOOLEAN, arp \in BOOLEAN,
        us \in {USE_SPECIFIC_OFF, USE_SPECIFIC_AUTO, USE_SPECIFIC_ALWAYS}}

InitSection ==
    /\ sectRun \in PendingSectRuns
    /\ InitBaseIdle /\ InitChildIdle /\ InitNestIdle /\ InitKwIdle /\ InitPfdIdle /\ InitActiveIdle /\ InitAddIdle

\* SectionMenu.render: self.get_context_data()
SectCallGetContextData ==
    /\ sectRun.pc = "start"
    /\ sectRun' = [sectRun EXCEPT !.pc = "done",
                                  !.section_root = SectionGetContextData(sectRun)]
    /\ UNCHANGED notSect

NextSection == SectCallGetContextData

SpecSection == InitSection /\ [][NextSection]_vars

\* A menu item for the section root's page carries ACTIVE_CLASS
RepeatedItemIsActive ==
    \E i \in DOMAIN sectRun.menu_items :
        /\ sectRun.menu_items[i].pk = sectRun.root_page
        /\ sectRun.menu_items[i].active_class = ACTIVE_CLASS

\* C26: with show_section_root and apply_active_classes, the section root
\* gets ACTIVE_CLASS when it is the current page and ACTIVE_ANCESTOR_CLASS
\* otherwise, except that it gets ACTIVE_ANCESTOR_CLASS as the current page
\* too when allow_repeating_parents and use_specific are set and a menu item
\* with its pk carries ACTIVE_CLASS; so that under those two options the
\* section root and the repeated item never both carry ACTIVE_CLASS
C26_SectionRootClass ==
    (/\ sectRun.pc = "done"
     /\ sectRun.show_section_root /\ sectRun.apply_active_classes) =>
        LET is_current == sectRun.root_page = sectRun.current_page
            repeating == /\ sectRun.allow_repeating_parents
                         /\ sectRun.use_specific # USE_SPECIFIC_OFF
            class == sectRun.section_root.active_class
        IN  /\ "active_class" \in sectRun.section_root.attrs
            /\ ~is_current => class = ACTIVE_ANCESTOR_CLASS
            /\ (is_current /\ ~(repeating /\ RepeatedItemIsActive)) =>
                  class = ACTIVE_CLASS
            /\ (is_current /\ repeating /\ RepeatedItemIsActive) =>
                  class = ACTIVE_ANCESTOR_CLASS
            /\ repeating => ~(class = ACTIVE_CLASS /\ RepeatedItemIsActive)

\* Witness for C26: the section root is the current page and its repeated
\* item, second in the list, carries ACTIVE_CLASS
C26_Witness ==
    /\ sectRun.pc = "done"
    /\ sectRun.show_section_root /\ sectRun.apply_active_classes
    /\ sectRun.allow_repeating_parents
    /\ sectRun.use_specific = USE_SPECIFIC_AUTO
    /\ sectRun.current_page = 3
    /\ sectRun.menu_items = <<SeenItem(5, ""), SeenItem(3, ACTIVE_CLASS)>>
    /\ sectRun.section_root.active_class = ACTIVE_ANCESTOR_CLASS

(***************************************************************************)
(* The ancestor page ids derived for the active classes (api/v1)           *)
(***************************************************************************)

\* A derivation with apply_active_classes on has run to its end
AncestorIdsDerived == drv.pc = "done" /\ drv.apply_active_classes

\* The set the claim describes for a reference page: its ancestors from
\* SECTION_ROOT_DEPTH down, and the page itself when it is only a best match
ClaimedAncestorIds(current_page, best_match_page, depth) ==
    IF current_page # NONE
    THEN {q \in AncestorsOf(current_page) : Depth(q) >= depth}
    ELSE IF best_match_page # NONE
    THEN {q \in AncestorsOf(best_match_page) \cup {best_match_page} :
             Depth(q) >= depth}
    ELSE {}

\* The pages a form that accepts best matches finds for the URL
FoundForUrl == DeriveLoop(RequestPathSplit(drv.url), TRUE, TRUE)

\* C27 (as stated): with apply_active_classes on, the derived ancestor page
\* ids are those of the ancestors of depth >= SECTION_ROOT_DEPTH of the
\* current page, or else of the best match, which is then in the set itself;
\* the set is empty when there is no page; no error is raised whatever the
\* depth of the current page; and the view derives for a URL the set the
\* form and the serializer derive for it
C27_AsStated ==
    AncestorIdsDerived =>
        /\ drv.raised = "none"
        /\ drv.ancestor_ids =
              ClaimedAncestorIds(drv.current_page, drv.best_match_page,
                                 drv.section_root_depth)
        /\ drv.current_page # NONE => drv.current_page \notin drv.ancestor_ids
        /\ (drv.current_page = NONE /\ drv.best_match_page = NONE) =>
              drv.ancestor_ids = {}
        /\ (drv.impl = "view" /\ drv.has_url) =>
              drv.ancestor_ids =
                  ClaimedAncestorIds(FoundForUrl.current_page,
                                     FoundForUrl.best_match_page,
                                     drv.section_root_depth)

\* C27, the part the form and the serializer keep: their sets are as
\* described, for a current page of any depth
C27_FormAndSerializer ==
    (AncestorIdsDerived /\ drv.impl \in {"form", "serializer"}) =>
        /\ drv.raised = "none"
        /\ drv.ancestor_ids =
              ClaimedAncestorIds(drv.current_page, drv.best_match_page,
                                 drv.section_root_depth)
        /\ drv.current_page # NONE => drv.current_page \notin drv.ancestor_ids

\* The form derives {3} for /a/c/ with SECTION_ROOT_DEPTH 3
C27_FormFindsAncestor ==
    /\ AncestorIdsDerived /\ drv.impl = "form"
    /\ drv.url.path = <<"a", "c">> /\ drv.section_root_depth = 3
    /\ drv.current_page = 5 /\ drv.ancestor_ids = {3}

\* The view derives nothing for /a/c/
C27_ViewFindsNothing ==
    /\ AncestorIdsDerived /\ drv.impl = "view"
    /\ drv.url.path = <<"a", "c">> /\ drv.section_root_depth = 3
    /\ drv.current_page = NONE /\ drv.best_match_page = NONE
    /\ drv.ancestor_ids = {}

(***************************************************************************)
(* Repeated renders of one menu instance                                   *)
(***************************************************************************)

\* The most renders of one instance
MaxRenders == 3

\* request.path of the requests rendered
RequestPaths == {"/", "/about/", "/contact/"}

\* The contextual and option values of one render of the menu
RepeatCtx(request_path, apply_active_classes, current_page) ==
    [IdleCtx EXCEPT !.called = TRUE, !.menu = "items",
                    !.current_page = current_page,
                    !.current_page_ancestor_ids = AncestorIds(current_page),
                    !.current_level = 1,
                    !.max_levels = MAIN_MENU_DEFAULT_MAX_LEVELS,
                    !.use_specific = USE_SPECIFIC_AUTO,
                    !.apply_active_classes = apply_active_classes,
                    !.allow_repeating_parents = TRUE,
                    !.request_path = request_path,
                    !.show_in_menus_custom = TRUE,
                    !.pages_for_display =
                        ItemsPagesForDisplay(StoredMenuItems,
                                             MAIN_MENU_DEFAULT_MAX_LEVELS,
                                             FixtureBase)]

\* The instance as fetched: nothing read, nothing rendered
FetchedInstance ==
    [pc |-> "fetched", top_level_items |-> <<>>, renders |-> 0,
     request_path |-> "", apply_active_classes |-> FALSE, current_page |-> NONE]

InitRepeat ==
    /\ actRun = FetchedInstance
    /\ InitBaseIdle /\ InitChildIdle /\ InitNestIdle /\ InitKwIdle /\ InitPfdIdle
    /\ InitSectIdle /\ InitAddIdle

\* The first read of top_level_items: the list is built and cached
RepeatReadTopLevelItems ==
    /\ actRun.pc = "fetched"
    /\ actRun' = [actRun EXCEPT
                     !.pc = "cached",
                     !.top_level_items =
                         TopLevelItems(USE_SPECIFIC_AUTO, FixtureLive,
                                       FixtureExpired, FixtureShowInMenus,
                                       <<>>, <<>>).items]
    /\ UNCHANGED notActive

\* One render of the instance: prime_menu_items sets its attributes on the
\* objects of the cached list
RepeatRender ==
    /\ actRun.pc = "cached"
    /\ actRun.renders < MaxRenders
    /\ \E request_path \in RequestPaths, aac \in BOOLEAN, cp \in {NONE, 3, 5} :
          actRun' = [actRun EXCEPT
                        !.renders = @ + 1,
                        !.request_path = request_path,
                        !.apply_active_classes = aac,
                        !.current_page = cp,
                        !.top_level_items =
                            PrimeMenuItems(@, RepeatCtx(request_path, aac, cp))]
    /\ UNCHANGED notActive

NextRepeat ==
    \/ RepeatReadTopLevelItems
    \/ RepeatRender

SpecRepeat == InitRepeat /\ [][NextRepeat]_vars

\* The items of the list that have a custom URL and no page
CustomUrlItems ==
    {i \in DOMAIN actRun.top_level_items :
        actRun.top_level_items[i].link_page = NONE}

\* C28 (as stated): after every render, the first or a later one, a custom
\* URL item carries the active class exactly when apply_active_classes is on
\* in that render and its link_url is the path of the request rendered
C28_AsStated ==
    actRun.renders >= 1 =>
        \A i \in CustomUrlItems :
            (actRun.top_level_items[i].active_class = ACTIVE_CLASS)
                <=> (/\ actRun.apply_active_classes
                     /\ actRun.top_level_items[i].link_url = actRun.request_path)

\* C28 for the first render of an instance, where it holds
C28_FirstRender ==
    actRun.renders = 1 =>
        \A i \in CustomUrlItems :
            (actRun.top_level_items[i].active_class = ACTIVE_CLASS)
                <=> (/\ actRun.apply_active_classes
                     /\ actRun.top_level_items[i].link_url = actRun.request_path)

\* The item for /about/ still carries the active class after a second
\* render, for the request path /
C28_ActiveClassSurvives ==
    /\ actRun.renders = 2
    /\ actRun.request_path = "/"
    /\ \E i \in CustomUrlItems :
          /\ actRun.top_level_items[i].link_url = "/about/"
          /\ actRun.top_level_items[i].active_class = ACTIVE_CLASS

(***************************************************************************)
(* What prime_menu_items returns                                           *)
(***************************************************************************)

\* A Page item whose specific class is a subclass of AbstractLinkPage
IsLinkPageItem(item) == item.kind = "Page" /\ item.id \in LinkPages

\* What identifies an item: its class and its primary key
ItemKey(item) == <<item.kind, item.id>>

\* [the keys of the items of a list, in the order of the list]
ItemKeys(items) == [i \in DOMAIN items |-> ItemKey(items[i])]

\* C29: prime_menu_items returns the items given, in their order, each once
\* and none added, without the link pages whose show_in_menus_custom
\* returns false and without any other; every item returned has text and
\* href set, and a link page returned is not flagged as having children
C29_PrimedItems ==
    primeCtx.called =>
        /\ ItemKeys(primeOut) =
              ItemKeys(SelectSeq(primeIn,
                  LAMBDA item : ~(/\ IsLinkPageItem(item)
                                  /\ ~primeCtx.show_in_menus_custom)))
        /\ \A i \in DOMAIN primeOut :
              /\ {"text", "href"} \subseteq primeOut[i].attrs
              /\ IsLinkPageItem(primeOut[i]) =>
                    /\ "has_children_in_menu" \notin primeOut[i].attrs
                    /\ ~primeOut[i].has_children_in_menu

\* A list with a link page among ordinary pages was primed, the link page's
\* show_in_menus_custom returned false, and all items but it were returned
C29_Witness ==
    /\ primeCtx.called
    /\ Len(primeIn) >= 2
    /\ \E i \in DOMAIN primeIn : IsLinkPageItem(primeIn[i])
    /\ \E i \in DOMAIN primeIn : ~IsLinkPageItem(primeIn[i])
    /\ ~primeCtx.show_in_menus_custom
    /\ Len(primeOut) = Len(primeIn) - 1

(***************************************************************************)
(* MenuWithMenuItems.add_menu_items_for_pages                              *)
(***************************************************************************)

\* The most items a menu has before the first call, and the most calls
MaxExisting == 2
MaxAddCalls == 2

\* A MenuItem row of the menu; added is the number of the call that created
\* it, 0 for a row the menu had before the first call
ItemRow(link_page, sort_order, allow_subnav, added) ==
    [link_page |-> link_page, sort_order |-> sort_order,
     allow_subnav |-> allow_subnav, added |-> added]

\* [integers of a set in ascending order]
RECURSIVE Ascending(_)
Ascending(S) ==
    IF S = {} THEN <<>>
    ELSE LET least == CHOOSE x \in S : \A y \in S : x <= y
         IN  <<least>> \o Ascending(S \ {least})

\* The rows a menu has before the first call, for their sort_order values
ExistingRows(orders) ==
    LET sorted == Ascending(orders)
    IN  [i \in DOMAIN sorted |-> ItemRow(2, sorted[i], TRUE, 0)]

\* The page querysets given to the calls, as lists in queryset order
AddQuerysets == {PageList(S) : S \in SUBSET {3, 4, 5}}

\* Mutant: sort_order counted from zero instead of from item_manager.count()
AddMenuItemsForPages_FromZero(items, pagequeryset, allow_subnav, call) == items \o [j \in 1..Len(pagequeryset) |-> ItemRow(pagequeryset[j], j - 1, allow_subnav, call)]

\* The menu's rows after add_menu_items_for_pages(pagequeryset, allow_subnav)
AddMenuItemsForPages(items, pagequeryset, allow_subnav, call) == items \o [j \in 1..Len(pagequeryset) |-> ItemRow(pagequeryset[j], Len(items) + j - 1, allow_subnav, call)]

\* A menu with its rows, before any call; the rows' sort_order values are
\* 0..n-1, or have gaps where rows were deleted or reordered
InitAdd ==
    /\ \E orders \in SUBSET (0..MaxExisting) :
          addRun = [pc |-> "menu",
                    items |-> ExistingRows(orders),
                    contiguous |-> (orders = 0..(Cardinality(orders) - 1)),
                    calls |-> 0,
                    before |-> <<>>,
                    pagequeryset |-> <<>>]
    /\ InitBaseIdle /\ InitChildIdle /\ InitNestIdle /\ InitKwIdle /\ InitPfdIdle
    /\ InitSectIdle /\ InitActiveIdle

\* One call of add_menu_items_for_pages on the menu
CallAddMenuItemsForPages ==
    /\ addRun.pc = "menu"
    /\ addRun.calls < MaxAddCalls
    /\ \E pagequeryset \in AddQuerysets, allow_subnav \in BOOLEAN :
          addRun' = [addRun EXCEPT
                        !.calls = @ + 1,
                        !.before = addRun.items,
                        !.pagequeryset = pagequeryset,
                        !.items = AddMenuItemsForPages(@, pagequeryset,
                                                       allow_subnav,
                                                       addRun.calls + 1)]
    /\ UNCHANGED notAdd

NextAdd == CallAddMenuItemsForPages

SpecAdd == InitAdd /\ [][NextAdd]_vars

\* C30: a call adds one item per page of the queryset, in queryset order,
\* with consecutive sort_order values from the number of items the menu had,
\* and leaves the items it had as they were; on a menu whose items started
\* with sort_order 0..n-1, after any calls all sort_order values differ and
\* every item added earlier sorts before every item added later
C30_ItemsAdded ==
    addRun.pc = "menu" /\ addRun.calls >= 1 =>
        LET items == addRun.items
            n == Len(addRun.before)
            pages == addRun.pagequeryset
        IN  /\ Len(items) = n + Len(pages)
            /\ SubSeq(items, 1, n) = addRun.before
            /\ \A j \in 1..Len(pages) :
                  /\ items[n + j].link_page = pages[j]
                  /\ items[n + j].sort_order = n + j - 1
            /\ addRun.contiguous =>
                  /\ \A i, j \in DOMAIN items :
                        i # j => items[i].sort_order # items[j].sort_order
                  /\ \A i, j \in DOMAIN items :
                        (i < j /\ items[j].added >= 1) =>
                            items[i].sort_order < items[j].sort_order

\* A menu that had items with sort_order 0..n-1 got pages from two calls,
\* two or more from the second
C30_Witness ==
    /\ addRun.pc = "menu"
    /\ addRun.contiguous
    /\ addRun.calls = 2
    /\ Len(addRun.pagequeryset) >= 2
    /\ Len(addRun.before) >= 3
    /\ addRun.before[1].added = 0
    /\ addRun.before[Len(addRun.before)].added = 1

\* On a menu whose items had a gap in their sort_order values, a call gave
\* a new item the sort_order of an item the menu had
C30_CollisionWithGap ==
    /\ addRun.pc = "menu"
    /\ ~addRun.contiguous
    /\ \E i, j \in DOMAIN addRun.items :
          /\ i # j
          /\ addRun.items[i].sort_order = addRun.items[j].sort_order
====
